---- MODULE Spec2Model ----
(***************************************************************************)
(* Task-Management-API: role-based project/task access control             *)
(* (permissions.middleware.ts), the Redis cache layer (cache.service.ts)   *)
(* and the project/task services and routes that use them.                 *)
(*                                                                         *)
(* The relational store (Prisma/MySQL) is the variables projects, members, *)
(* tasks and users; the Redis cache is the variables cache and redis.      *)
(* A request is the route's middleware chain followed by its handler.      *)
(***************************************************************************)
EXTENDS Integers, FiniteSets, Sequences, TLC

\* ------------------------------------------------------------------ universe

Users == {"u1", "u2", "u3"}
Projects == {"p1", "p2"}
Tasks == {"t1", "t2"}
Comments == {"c1", "c2"}
TokenIds == {"r1", "r2", "r3"}
Sockets == {"s1", "s2"}

\* enum Role of project_members.role
Roles == {"OWNER", "ADMIN", "MEMBER", "VIEWER"}

\* updatedAt is a logical clock; the model stops updating a row at MaxVer
MaxVer == 2
\* the clock of the authentication specifications stops after MaxClock seconds
MaxClock == 2

\* a null column, a null findUnique result, a cache miss
Null == [kind |-> "null"]
\* a row that was deleted (ids are UUIDs and are never used again)
Gone == [kind |-> "gone"]
\* a nullable id column / an absent optional field of a request body
NoUser == "none"
NoRole == "none"
Absent == "absent"

\* enum TaskStatus of tasks.status
TaskStatuses == {"TODO", "IN_PROGRESS", "DONE", "IN_REVIEW", "CANCELLED"}

\* enum Priority of tasks.priority
Priorities == {"LOW", "MEDIUM", "HIGH", "URGENT"}

\* a string column, as its characters
Text(chars) == [kind |-> "text", chars |-> chars]

\* a DATETIME(3) value in server local time: the day and the millisecond of the day
StartOfDay == 0
Noon == 43200000
EndOfDay == 86399999
DateTime(day, ms) == [kind |-> "datetime", day |-> day, ms |-> ms]

\* a Date column written at logical time at
Date(at) == [kind |-> "date", at |-> at]
\* a key that an update's data object does not have
Unset == [kind |-> "unset"]

\* an optional field of a request body
Field(body, name) == IF name \in DOMAIN body THEN body[name] ELSE Absent
Has(body, name) == name \in DOMAIN body

VARIABLES
  users,     \* users table: id -> [isActive]
  projects,  \* projects table: id -> row | Null | Gone
  members,   \* project_members table: projectId -> userId -> role | NoRole
  tasks,     \* tasks table: id -> row | Null | Gone
  comments,  \* comments table: id -> row | Null | Gone
  refreshTokens, \* refresh_tokens table: id -> [token, userId, expiresAt] | Null | Gone
  clock,     \* the server's clock, in seconds
  sockets,   \* socket.io connections: socket -> [user, rooms]
  cache,     \* Redis: key -> [data, ttl] | Null
  redis,     \* Redis client: "open", "closed" (isOpen false), "error" (commands reject)
  ev,        \* the last evaluation of a permission middleware
  res,       \* the last handler's call: who called what and what came back
  proc,      \* in-flight service calls of the interleaved specification
  hist       \* bookkeeping of the interleaved specification

vars ==
  <<users, projects, members, tasks, comments, refreshTokens, clock, sockets, cache,
    redis, ev, res, proc, hist>>

\* the store and the cache as one value, as the service functions see them
\* log: what the call under way has done so far that others can observe, in order
World ==
  [users |-> users, projects |-> projects, members |-> members,
   tasks |-> tasks, comments |-> comments, refreshTokens |-> refreshTokens,
   cache |-> cache, redis |-> redis,
   log |-> <<>>]

SetWorld(w) ==
  /\ users' = w.users
  /\ projects' = w.projects
  /\ members' = w.members
  /\ tasks' = w.tasks
  /\ comments' = w.comments
  /\ refreshTokens' = w.refreshTokens
  /\ clock' = clock
  /\ cache' = w.cache
  /\ redis' = w.redis

IsRow(x) == x # Null /\ x # Gone

\* no socket is connected
NoSockets == [s \in Sockets |-> Null]

\* ------------------------------------------------------------------ cache layer

CACHE_KEYS ==
  [USER_PROJECTS |-> "user:projects:", PROJECT_TASKS |-> "project:tasks:",
   USER_PROFILE |-> "user:profile:", TASK_DETAILS |-> "task:details:",
   PROJECT_MEMBERS |-> "project:members:"]

CACHE_TTL_SHORT == 300
CACHE_TTL_MEDIUM == 900

\* a key is <<prefix, id>>, the template string `${prefix}${id}`
CacheKeys ==
  ({CACHE_KEYS.USER_PROJECTS, CACHE_KEYS.USER_PROFILE} \X Users)
    \cup ({CACHE_KEYS.PROJECT_TASKS, CACHE_KEYS.PROJECT_MEMBERS} \X Projects)
    \cup ({CACHE_KEYS.TASK_DETAILS} \X Tasks)

EmptyCache == [k \in CacheKeys |-> Null]

\* JSON.stringify followed by JSON.parse: Date fields come back as ISO strings
JSONstringify(data) == [json |-> [data EXCEPT !.dates = "string"]]
JSONparse(text) == text.json

Throw == [kind |-> "throw"]
Ok(v) == [kind |-> "ok", val |-> v]

\* redisClient.get / set / del / keys: reject while the connection is broken
redisGet(c, r, key) == IF r = "error" THEN Throw ELSE Ok(c[key])
redisSet(c, r, key, text, ttl) ==
  IF r = "error" THEN Throw
  ELSE Ok([c EXCEPT ![key] = [kind |-> "entry", data |-> text, ttl |-> ttl, age |-> 0]])
redisDel(c, r, keys) ==
  IF r = "error" THEN Throw
  ELSE Ok([k \in CacheKeys |-> IF k \in keys THEN Null ELSE c[k]])
redisKeys(c, r, prefix) ==
  IF r = "error" THEN Throw
  ELSE Ok({k \in CacheKeys : k[1] = prefix /\ c[k] # Null})

getCachedRethrows(c, r, key) ==
  IF r = "closed" THEN Null
  ELSE LET data == redisGet(c, r, key)
       IN IF data = Throw THEN Throw
          ELSE IF data.val = Null THEN Null ELSE JSONparse(data.val.data)

\* getCached: the parsed value, or Null on a miss, a closed client or an error
getCached(c, r, key) ==
  IF r = "closed" THEN Null
  ELSE LET data == redisGet(c, r, key)
       IN IF data = Throw THEN Null
          ELSE IF data.val = Null THEN Null ELSE JSONparse(data.val.data)

\* setCached: the cache afterwards
setCached(c, r, key, data, ttl) ==
  IF r = "closed" THEN c
  ELSE LET c2 == redisSet(c, r, key, JSONstringify(data), ttl)
       IN IF c2 = Throw THEN c ELSE c2.val

deleteCachedKeepsEntry(c, r, key) == c

deleteCached(c, r, key) ==
  IF r = "closed" THEN c
  ELSE LET c2 == redisDel(c, r, {key})
       IN IF c2 = Throw THEN c ELSE c2.val

\* deleteCachedByPattern(`${prefix}*`) up to its second await: the keys KEYS found
deleteCachedByPatternKeys(c, r, prefix) ==
  IF r = "closed" THEN {}
  ELSE LET keys == redisKeys(c, r, prefix)
       IN IF keys = Throw THEN {} ELSE keys.val

\* deleteCachedByPattern from its second await on: DEL of the keys found
deleteCachedByPatternDel(c, r, keys) ==
  IF keys # {}
  THEN LET c2 == redisDel(c, r, keys)
       IN IF c2 = Throw THEN c ELSE c2.val
  ELSE c

deleteCachedByPattern(c, r, prefix) ==
  deleteCachedByPatternDel(c, r, deleteCachedByPatternKeys(c, r, prefix))

cacheUserProjects(c, r, userId, data) ==
  setCached(c, r, <<CACHE_KEYS.USER_PROJECTS, userId>>, data, CACHE_TTL_MEDIUM)
cacheUserProject(c, r, userId, project) ==
  setCached(c, r, <<CACHE_KEYS.USER_PROJECTS, userId>>, project, CACHE_TTL_MEDIUM)
getCachedUserProjects(c, r, userId) ==
  getCached(c, r, <<CACHE_KEYS.USER_PROJECTS, userId>>)
cacheTaskDetailsMedium(c, r, taskId, task) ==
  setCached(c, r, <<CACHE_KEYS.TASK_DETAILS, taskId>>, task, CACHE_TTL_MEDIUM)
cacheTaskDetails(c, r, taskId, task) ==
  setCached(c, r, <<CACHE_KEYS.TASK_DETAILS, taskId>>, task, CACHE_TTL_SHORT)
getCachedTaskDetails(c, r, taskId) ==
  getCached(c, r, <<CACHE_KEYS.TASK_DETAILS, taskId>>)

invalidateUserCaches(c, r, userId) ==
  deleteCached(deleteCached(c, r, <<CACHE_KEYS.USER_PROJECTS, userId>>),
               r, <<CACHE_KEYS.USER_PROFILE, userId>>)

invalidateProjectCaches(c, r, projectId) ==
  deleteCachedByPattern(
    deleteCached(deleteCached(c, r, <<CACHE_KEYS.PROJECT_TASKS, projectId>>),
                 r, <<CACHE_KEYS.PROJECT_MEMBERS, projectId>>),
    r, CACHE_KEYS.USER_PROJECTS)

invalidateTaskCaches(c, r, taskId, projectId) ==
  deleteCachedByPattern(
    deleteCached(deleteCached(c, r, <<CACHE_KEYS.TASK_DETAILS, taskId>>),
                 r, <<CACHE_KEYS.PROJECT_TASKS, projectId>>),
    r, CACHE_KEYS.USER_PROJECTS)

\* the entries the cache holds under task:details:t and under user:projects:*
TaskCacheEntries(c, t) ==
  {k \in CacheKeys : /\ c[k] # Null
                      /\ \/ k = <<CACHE_KEYS.TASK_DETAILS, t>>
                         \/ k[1] = CACHE_KEYS.USER_PROJECTS}

\* ------------------------------------------------------------------ permission middleware

\* the Express request/response pair as the middleware sees it
NewReq(userId) == [user |-> userId, project |-> Null, sent |-> <<>>, nextCalls |-> 0]
forbiddenResponse(rq) == [rq EXCEPT !.sent = Append(@, 403)]
notFoundResponse(rq) == [rq EXCEPT !.sent = Append(@, 404)]
next(rq) == [rq EXCEPT !.nextCalls = @ + 1]

roleHierarchy == [VIEWER |-> 0, MEMBER |-> 1, ADMIN |-> 2, OWNER |-> 3]

roleTooLowOrEqual(userRole, requiredRole) ==
  roleHierarchy[userRole] <= roleHierarchy[requiredRole]

\* roleHierarchy[userRole] < roleHierarchy[requiredRole]
roleTooLow(userRole, requiredRole) ==
  roleHierarchy[userRole] < roleHierarchy[requiredRole]

\* prisma.project.findUnique({ where: { id }, include: { members: { where: { userId } } } })
findProjectWithMembers(w, projectId, userId) ==
  IF projectId \notin Projects \/ ~IsRow(w.projects[projectId]) THEN Null
  ELSE [kind |-> "project", id |-> projectId,
        ownerId |-> w.projects[projectId].ownerId,
        isArchived |-> w.projects[projectId].isArchived,
        members |-> IF w.members[projectId][userId] # NoRole
                    THEN <<[role |-> w.members[projectId][userId]]>> ELSE <<>>]

\* prisma.task.findUnique({ where: { id }, include: { project: { include: { members } } } })
findTaskWithProject(w, taskId, userId) ==
  IF taskId \notin Tasks \/ ~IsRow(w.tasks[taskId]) THEN Null
  ELSE [kind |-> "task", id |-> taskId,
        createdById |-> w.tasks[taskId].createdById,
        assigneeId |-> w.tasks[taskId].assigneeId,
        project |-> findProjectWithMembers(w, w.tasks[taskId].projectId, userId)]

projectUserRoleDefaultsMember(project, userId) ==
  IF project.ownerId = userId THEN "OWNER"
  ELSE IF Len(project.members) > 0 THEN "MEMBER"
  ELSE NoRole

\* let userRole = null; if owner 'OWNER' else if members.length > 0 members[0].role
projectUserRole(project, userId) ==
  IF project.ownerId = userId THEN "OWNER"
  ELSE IF Len(project.members) > 0 THEN project.members[1].role
  ELSE NoRole

attachProject(rq, project, userRole) ==
  [rq EXCEPT !.project = [kind |-> "attached", id |-> project.id,
                          ownerId |-> project.ownerId, userRole |-> userRole]]

requireProjectAccessWhenArchived(requiredRole, w, rq, projectId, dbOk) ==
  IF rq.user = NoUser THEN forbiddenResponse(rq)
  ELSE IF projectId = Absent THEN notFoundResponse(rq)
  ELSE IF ~dbOk THEN forbiddenResponse(rq)
  ELSE LET project == findProjectWithMembers(w, projectId, rq.user)
       IN IF project = Null THEN notFoundResponse(rq)
          ELSE LET userRole == projectUserRole(project, rq.user)
               IN IF userRole = NoRole THEN forbiddenResponse(rq)
                  ELSE IF requiredRole # NoRole /\ roleTooLow(userRole, requiredRole)
                       THEN forbiddenResponse(rq)
                       ELSE next(attachProject(rq, project, userRole))

\* requireProjectAccess(requiredRole)(req, res, next); dbOk = FALSE: the query rejects
requireProjectAccess(requiredRole, w, rq, projectId, dbOk) ==
  IF rq.user = NoUser THEN forbiddenResponse(rq)
  ELSE IF projectId = Absent THEN notFoundResponse(rq)
  ELSE IF ~dbOk THEN forbiddenResponse(rq)
  ELSE LET project == findProjectWithMembers(w, projectId, rq.user)
       IN IF project = Null THEN notFoundResponse(rq)
          ELSE IF project.isArchived THEN forbiddenResponse(rq)
          ELSE LET userRole == projectUserRole(project, rq.user)
               IN IF userRole = NoRole THEN forbiddenResponse(rq)
                  ELSE IF requiredRole # NoRole /\ roleTooLow(userRole, requiredRole)
                       THEN forbiddenResponse(rq)
                       ELSE next(attachProject(rq, project, userRole))

requireProjectManagement(w, rq, projectId, dbOk) ==
  requireProjectAccess("ADMIN", w, rq, projectId, dbOk)
requireProjectOwnership(w, rq, projectId, dbOk) ==
  requireProjectAccess("OWNER", w, rq, projectId, dbOk)
requireTaskEditForViewers(w, rq, projectId, dbOk) ==
  requireProjectAccess("VIEWER", w, rq, projectId, dbOk)

requireTaskEdit(w, rq, projectId, dbOk) ==
  requireProjectAccess("MEMBER", w, rq, projectId, dbOk)

taskAccessDeniedIgnoresAssignee(task, userId) ==
  /\ task.createdById # userId
  /\ task.project.ownerId # userId
  /\ ~(Len(task.project.members) > 0)

\* !isTaskCreator && !isAssignee && !isProjectOwner && !hasProjectAccess
taskAccessDenied(task, userId) ==
  /\ task.createdById # userId
  /\ task.assigneeId # userId
  /\ task.project.ownerId # userId
  /\ ~(Len(task.project.members) > 0)

requireTaskAccessCatchFallsThrough(w, rq, taskId, dbOk) ==
  IF rq.user = NoUser THEN forbiddenResponse(rq)
  ELSE IF taskId = Absent THEN notFoundResponse(rq)
  ELSE IF ~dbOk THEN next(forbiddenResponse(rq))
  ELSE LET task == findTaskWithProject(w, taskId, rq.user)
       IN IF task = Null THEN notFoundResponse(rq)
          ELSE IF taskAccessDenied(task, rq.user) THEN forbiddenResponse(rq)
          ELSE LET userRole == projectUserRole(task.project, rq.user)
               IN next(attachProject(rq, task.project,
                                     IF userRole # NoRole THEN userRole ELSE "VIEWER"))

\* requireTaskAccess(req, res, next)
requireTaskAccess(w, rq, taskId, dbOk) ==
  IF rq.user = NoUser THEN forbiddenResponse(rq)
  ELSE IF taskId = Absent THEN notFoundResponse(rq)
  ELSE IF ~dbOk THEN forbiddenResponse(rq)
  ELSE LET task == findTaskWithProject(w, taskId, rq.user)
       IN IF task = Null THEN notFoundResponse(rq)
          ELSE IF taskAccessDenied(task, rq.user) THEN forbiddenResponse(rq)
          ELSE LET userRole == projectUserRole(task.project, rq.user)
               IN next(attachProject(rq, task.project,
                                     IF userRole # NoRole THEN userRole ELSE "VIEWER"))

\* whether the middleware handed the request to the route handler
Granted(rq) == rq.nextCalls > 0 /\ rq.sent = <<>>

\* ------------------------------------------------------------------ services

\* the call has written the store / invalidated cache entries / emitted an event to
\* the room of the project; cached: the cache entries about the task at that moment
Logged(w, entry) == [w EXCEPT !.log = Append(@, entry)]
StoreWritten(w) == Logged(w, [kind |-> "write"])
CacheInvalidated(w) == Logged(w, [kind |-> "invalidate"])
emit(w, type, projectId, id) ==
  Logged(w, [kind |-> "emit", type |-> type, room |-> projectId, id |-> id,
             cached |-> IF id \in Tasks THEN TaskCacheEntries(w.cache, id) ELSE {}])
emitTaskCreated(w, projectId, taskId) == emit(w, "task_created", projectId, taskId)
emitTaskUpdate(w, projectId, taskId) == emit(w, "task_updated", projectId, taskId)
emitTaskDeleted(w, projectId, taskId) == emit(w, "task_deleted", projectId, taskId)
emitNewComment(w, projectId, id) == emit(w, "new_comment", projectId, id)
emitCommentUpdate(w, projectId, id) == emit(w, "comment_updated", projectId, id)
emitCommentDelete(w, projectId, id) == emit(w, "comment_deleted", projectId, id)
emitMemberAdded(w, projectId, userId) == emit(w, "member_added", projectId, userId)

\* the events a call emitted
Events(w) == SelectSeq(w.log, LAMBDA e : e.kind = "emit")

\* what a service call leaves behind and answers: an HTTP status and a body
Result(w, status, value) == [w |-> w, status |-> status, value |-> value]

isActiveUser(w, userId) == userId \in Users /\ w.users[userId].isActive

\* the task as prisma returns it (row plus id; Date columns are Date objects)
TaskResponse(w, taskId) ==
  [kind |-> "task", id |-> taskId,
   projectId |-> w.tasks[taskId].projectId,
   createdById |-> w.tasks[taskId].createdById,
   assigneeId |-> w.tasks[taskId].assigneeId,
   status |-> w.tasks[taskId].status,
   priority |-> w.tasks[taskId].priority,
   title |-> w.tasks[taskId].title,
   description |-> w.tasks[taskId].description,
   dueDate |-> w.tasks[taskId].dueDate,
   completedAt |-> w.tasks[taskId].completedAt,
   updatedAt |-> w.tasks[taskId].updatedAt,
   dates |-> "Date"]

\* getTaskById(taskId)
getTaskById(w, taskId) ==
  LET cachedTask == getCachedTaskDetails(w.cache, w.redis, taskId)
  IN IF cachedTask = Throw THEN Result(w, 500, Null)
     ELSE IF cachedTask # Null THEN Result(w, 200, cachedTask)
     ELSE IF ~IsRow(w.tasks[taskId]) THEN Result(w, 404, Null)
     ELSE LET task == TaskResponse(w, taskId)
          IN Result([w EXCEPT !.cache = cacheTaskDetails(w.cache, w.redis, taskId, task)],
                    200, task)

\* deactivateUserAccount(userId)
\* prisma.refreshToken.deleteMany({ where: { userId } })
refreshTokenDeleteMany(table, userId) ==
  [r \in TokenIds |->
     IF IsRow(table[r]) /\ table[r].userId = userId THEN Gone ELSE table[r]]

\* one transaction: isActive false, and the user's refresh tokens deleted
deactivateUserAccount(w, userId) ==
  Result([w EXCEPT !.users[userId].isActive = FALSE,
                   !.refreshTokens = refreshTokenDeleteMany(@, userId)], 200, Null)

hasProjectAccessAnyProject(w, projectId, userId) ==
  \E p \in Projects :
    /\ IsRow(w.projects[p])
    /\ \/ w.projects[p].ownerId = userId
       \/ w.members[p][userId] # NoRole

\* project.findFirst({ id, OR: [{ ownerId }, { members: { some: { userId } } }] })
hasProjectAccess(w, projectId, userId) ==
  /\ IsRow(w.projects[projectId])
  /\ \/ w.projects[projectId].ownerId = userId
     \/ w.members[projectId][userId] # NoRole

\* createTask(projectId, userId, taskData); newId is the generated UUID
createTask(w, projectId, userId, taskData, newId) ==
  IF taskData.assigneeId \notin {NoUser, Absent} /\ ~isActiveUser(w, taskData.assigneeId)
  THEN Result(w, 400, Null)
  ELSE IF taskData.assigneeId \notin {NoUser, Absent}
          /\ ~hasProjectAccess(w, projectId, taskData.assigneeId)
  THEN Result(w, 400, Null)
  ELSE IF ~IsRow(w.projects[projectId]) THEN Result(w, 500, Null)
  ELSE LET row == [kind |-> "task", projectId |-> projectId, createdById |-> userId,
                   assigneeId |-> IF taskData.assigneeId = Absent THEN NoUser
                                  ELSE taskData.assigneeId,
                   status |-> IF Field(taskData, "status") = Absent THEN "TODO"
                              ELSE taskData.status,
                   priority |-> IF ~Has(taskData, "priority") THEN "MEDIUM"
                                ELSE taskData.priority,
                   title |-> IF ~Has(taskData, "title") THEN Text(<<"a">>)
                             ELSE taskData.title,
                   description |-> IF ~Has(taskData, "description") THEN Null
                                   ELSE taskData.description,
                   dueDate |-> IF ~Has(taskData, "dueDate") THEN Null
                               ELSE taskData.dueDate,
                   completedAt |-> Null,
                   updatedAt |-> 0]
           w1 == StoreWritten([w EXCEPT !.tasks[newId] = row])
           w2 == emitTaskCreated(w1, projectId, newId)
           w3 == CacheInvalidated(
                   [w2 EXCEPT !.cache = invalidateTaskCaches(w2.cache, w2.redis, newId,
                                                             projectId)])
       IN Result(w3, 201, TaskResponse(w1, newId))

completedAtKept(taskData, now) ==
  IF Field(taskData, "status") = "DONE" THEN Date(now) ELSE Unset

\* updateData.completedAt: new Date() for status DONE, null for any other status
completedAt(taskData, now) ==
  IF Field(taskData, "status") = "DONE" THEN Date(now)
  ELSE IF Field(taskData, "status") # Absent THEN Null
  ELSE Unset

\* prisma.task.update({ where: { id }, data: { ...updateData, updatedAt: new Date() } })
prismaTaskUpdate(w, taskId, taskData) ==
  [w EXCEPT !.tasks[taskId] =
     [@ EXCEPT !.assigneeId = IF taskData.assigneeId = Absent THEN @
                              ELSE taskData.assigneeId,
               !.status = IF Field(taskData, "status") = Absent THEN @
                          ELSE taskData.status,
               !.priority = IF ~Has(taskData, "priority") THEN @
                            ELSE taskData.priority,
               !.title = IF ~Has(taskData, "title") THEN @ ELSE taskData.title,
               !.description = IF ~Has(taskData, "description") THEN @
                               ELSE taskData.description,
               !.dueDate = IF ~Has(taskData, "dueDate") THEN @
                           ELSE taskData.dueDate,
               !.completedAt = IF completedAt(taskData, w.tasks[taskId].updatedAt + 1) = Unset
                               THEN @
                               ELSE completedAt(taskData, w.tasks[taskId].updatedAt + 1),
               !.updatedAt = @ + 1]]

\* updateTask(taskId, taskData)
updateTask(w, taskId, taskData) ==
  IF taskData.assigneeId \notin {NoUser, Absent} /\ ~isActiveUser(w, taskData.assigneeId)
  THEN Result(w, 400, Null)
  ELSE IF ~IsRow(w.tasks[taskId]) THEN Result(w, 500, Null)
  ELSE LET w1 == StoreWritten(prismaTaskUpdate(w, taskId, taskData))
           w2 == emitTaskUpdate(w1, w1.tasks[taskId].projectId, taskId)
           w3 == CacheInvalidated(
                   [w2 EXCEPT !.cache = invalidateTaskCaches(w2.cache, w2.redis, taskId,
                                                             w2.tasks[taskId].projectId)])
       IN Result(w3, 200, TaskResponse(w1, taskId))

\* deleteTask(taskId)
deleteTask(w, taskId) ==
  IF ~IsRow(w.tasks[taskId]) THEN Result(w, 200, Null)
  ELSE LET projectId == w.tasks[taskId].projectId
           w1 == CacheInvalidated(
                   [w EXCEPT !.cache = invalidateTaskCaches(w.cache, w.redis, taskId,
                                                            projectId)])
           w2 == StoreWritten(
                   [w1 EXCEPT !.tasks[taskId] = Gone,
                              !.comments = [c \in Comments |->
                                              IF IsRow(@[c]) /\ @[c].taskId = taskId
                                              THEN Gone ELSE @[c]]])
       IN Result(emitTaskDeleted(w2, projectId, taskId), 200, Null)

\* comment bodies as sent, and String.prototype.trim
Contents == {"a", " a", "b"}
trim(content) == IF content = " a" THEN "a" ELSE content

\* getUserProfile(userId): the active user, or ApiError 404
getUserProfile(w, userId) ==
  IF isActiveUser(w, userId) THEN Result(w, 200, [kind |-> "user", id |-> userId])
  ELSE Result(w, 404, Null)

\* the comment as prisma returns it
CommentResponse(w, commentId) ==
  [kind |-> "comment", id |-> commentId,
   taskId |-> w.comments[commentId].taskId,
   userId |-> w.comments[commentId].userId,
   content |-> w.comments[commentId].content,
   updatedAt |-> w.comments[commentId].updatedAt]

\* createComment(taskId, userId, commentData); newId is the generated id
createComment(w, taskId, userId, commentData, newId) ==
  IF ~IsRow(w.tasks[taskId]) THEN Result(w, 404, Null)
  ELSE IF ~(\/ w.projects[w.tasks[taskId].projectId].ownerId = userId
            \/ w.members[w.tasks[taskId].projectId][userId] # NoRole
            \/ w.tasks[taskId].createdById = userId
            \/ w.tasks[taskId].assigneeId = userId)
  THEN Result(w, 403, Null)
  ELSE IF commentData.content = Absent THEN Result(w, 500, Null)
  ELSE LET w1 == StoreWritten(
                   [w EXCEPT !.comments[newId] =
                      [kind |-> "comment", taskId |-> taskId, userId |-> userId,
                       content |-> trim(commentData.content), updatedAt |-> 0]])
       IN Result(emitNewComment(w1, w.tasks[taskId].projectId, newId), 201,
                 CommentResponse(w1, newId))

\* prisma.comment.update, then getTaskById for the event's room, then emitCommentUpdate
commentUpdate(w, commentId, commentData) ==
  IF commentData.content = Absent THEN Result(w, 500, Null)
  ELSE LET w1 == StoreWritten(
                   [w EXCEPT !.comments[commentId] =
                      [@ EXCEPT !.content = trim(commentData.content),
                                !.updatedAt = @ + 1]])
           task == getTaskById(w1, w1.comments[commentId].taskId)
       IN IF task.status # 200 THEN Result(task.w, task.status, Null)
          ELSE Result(emitCommentUpdate(task.w, task.value.projectId, commentId), 200,
                      CommentResponse(w1, commentId))

updateCommentByAnyone(w, commentId, userId, commentData) ==
  IF ~IsRow(w.comments[commentId]) THEN Result(w, 404, Null)
  ELSE commentUpdate(w, commentId, commentData)

\* updateComment(commentId, userId, commentData)
updateComment(w, commentId, userId, commentData) ==
  IF ~IsRow(w.comments[commentId]) THEN Result(w, 404, Null)
  ELSE IF w.comments[commentId].userId # userId THEN Result(w, 403, Null)
  ELSE commentUpdate(w, commentId, commentData)

\* deleteComment(commentId, userId)
deleteComment(w, commentId, userId) ==
  IF ~IsRow(w.comments[commentId]) THEN Result(w, 404, Null)
  ELSE LET comment == w.comments[commentId]
           projectId == w.tasks[comment.taskId].projectId
           canDelete == \/ comment.userId = userId
                        \/ w.projects[projectId].ownerId = userId
       IN IF ~canDelete THEN Result(w, 403, Null)
          ELSE IF getUserProfile(w, comment.userId).status # 200
          THEN Result(w, getUserProfile(w, comment.userId).status, Null)
          ELSE LET w1 == StoreWritten([w EXCEPT !.comments[commentId] = Gone])
               IN Result(emitCommentDelete(w1, projectId, commentId), 200, Null)

\* ids in creation order: the n-th project created gets the n-th id
ProjectIds == <<"p1", "p2">>
TaskIds == <<"t1", "t2">>

\* orderBy: { createdAt: 'desc' }
ProjectsNewestFirst == [i \in 1..Len(ProjectIds) |-> ProjectIds[Len(ProjectIds) + 1 - i]]

calculateSkip(page, limit) == (page - 1) * limit

Min(a, b) == IF a < b THEN a ELSE b

\* where: { OR: [{ ownerId: userId }, { members: { some: { userId } } }], isArchived: false }
userProjectsWhere(w, userId, projectId) ==
  /\ hasProjectAccess(w, projectId, userId)
  /\ ~w.projects[projectId].isArchived

\* the answer of the store to getUserProjects: findMany with skip/take, and count
findUserProjects(w, userId, options) ==
  LET all == SelectSeq(ProjectsNewestFirst, LAMBDA p : userProjectsWhere(w, userId, p))
      skip == calculateSkip(options.page, options.limit)
      page == SubSeq(all, skip + 1, Min(Len(all), skip + options.limit))
  IN [kind |-> "list",
      projects |-> page,
      members |-> [p \in {page[i] : i \in 1..Len(page)} |-> w.members[p]],
      total |-> Len(all),
      dates |-> "Date"]

\* getUserProjects(userId, options)
getUserProjects(w, userId, options) ==
  LET cachedResult == getCachedUserProjects(w.cache, w.redis, userId)
  IN IF cachedResult = Throw THEN Result(w, 500, Null)
     ELSE IF cachedResult # Null THEN Result(w, 200, cachedResult)
     ELSE LET found == findUserProjects(w, userId, options)
          IN Result([w EXCEPT !.cache = cacheUserProjects(w.cache, w.redis, userId, found)],
                    200, found)

\* the project as prisma returns it to getProjectById
ProjectResponse(w, projectId) ==
  [kind |-> "project", id |-> projectId,
   ownerId |-> w.projects[projectId].ownerId,
   isArchived |-> w.projects[projectId].isArchived,
   members |-> w.members[projectId],
   dates |-> "Date"]

\* getProjectById(projectId, userId)
getProjectById(w, projectId, userId) ==
  LET cachedResult == getCachedUserProjects(w.cache, w.redis, userId)
  IN IF cachedResult = Throw THEN Result(w, 500, Null)
     ELSE IF cachedResult # Null THEN Result(w, 200, cachedResult)
     ELSE IF ~IsRow(w.projects[projectId]) THEN Result(w, 404, Null)
     ELSE IF ~hasProjectAccess(w, projectId, userId) THEN Result(w, 403, Null)
     ELSE LET project == ProjectResponse(w, projectId)
          IN Result([w EXCEPT !.cache = cacheUserProject(w.cache, w.redis, userId, project)],
                    200, project)

\* the users whose caches updateProject and deleteProject invalidate: owner and members
invalidateOwnerAndMembers(w, c, projectId) ==
  LET F[S \in SUBSET Users] ==
        IF S = {} THEN invalidateUserCaches(c, w.redis, w.projects[projectId].ownerId)
        ELSE LET u == CHOOSE x \in S : TRUE
             IN invalidateUserCaches(F[S \ {u}], w.redis, u)
  IN F[{u \in Users : w.members[projectId][u] # NoRole}]

\* createProject(userId, projectData); newId is the generated UUID
createProject(w, userId, newId) ==
  LET w1 == [w EXCEPT !.projects[newId] =
                        [kind |-> "project", ownerId |-> userId, isArchived |-> FALSE]]
  IN Result([w1 EXCEPT !.cache = invalidateUserCaches(w1.cache, w1.redis, userId)],
            201, ProjectResponse(w1, newId))

\* updateProject(projectId, projectData)
updateProject(w, projectId, projectData) ==
  IF ~IsRow(w.projects[projectId]) THEN Result(w, 500, Null)
  ELSE LET w1 == [w EXCEPT !.projects[projectId].isArchived =
                     IF projectData.isArchived = Absent THEN @
                     ELSE projectData.isArchived = "true"]
       IN Result([w1 EXCEPT !.cache = invalidateOwnerAndMembers(w1, w1.cache, projectId)],
                 200, ProjectResponse(w1, projectId))

\* deleteProject(projectId); members and tasks go with the project (ON DELETE CASCADE)
deleteProject(w, projectId) ==
  IF ~IsRow(w.projects[projectId]) THEN Result(w, 500, Null)
  ELSE LET w1 == [w EXCEPT !.projects[projectId] = Gone,
                           !.members[projectId] = [u \in Users |-> NoRole],
                           !.tasks = [t \in Tasks |->
                                        IF IsRow(@[t]) /\ @[t].projectId = projectId
                                        THEN Gone ELSE @[t]],
                           !.comments = [c \in Comments |->
                                           IF /\ IsRow(@[c])
                                              /\ w.tasks[@[c].taskId].projectId = projectId
                                           THEN Gone ELSE @[c]]]
           c1 == invalidateOwnerAndMembers(w, w.cache, projectId)
       IN Result([w1 EXCEPT !.cache = invalidateProjectCaches(c1, w.redis, projectId)],
                 200, Null)

projectMemberCreateTwice(w, projectId, memberData) ==
  IF ~IsRow(w.projects[projectId]) THEN Throw
  ELSE Ok(StoreWritten([w EXCEPT !.members[projectId][memberData.userId] = memberData.role]))

\* prisma.projectMember.create: rejected by the unique index on (userId, projectId)
\* and by the foreign key to the project
projectMemberCreate(w, projectId, memberData) ==
  IF ~IsRow(w.projects[projectId]) THEN Throw
  ELSE IF w.members[projectId][memberData.userId] # NoRole THEN Throw
  ELSE Ok(StoreWritten([w EXCEPT !.members[projectId][memberData.userId] = memberData.role]))

\* addProjectMember(projectId, { userId, role }, addedBy)
addProjectMember(w, projectId, memberData, addedBy) ==
  IF ~isActiveUser(w, memberData.userId) THEN Result(w, 404, Null)
  ELSE IF w.members[projectId][memberData.userId] # NoRole THEN Result(w, 400, Null)
  ELSE IF projectMemberCreate(w, projectId, memberData) = Throw THEN Result(w, 500, Null)
  ELSE LET w0 == projectMemberCreate(w, projectId, memberData).val
           w1 == emitMemberAdded(w0, projectId, memberData.userId)
           c1 == invalidateUserCaches(w1.cache, w1.redis, memberData.userId)
       IN Result(CacheInvalidated([w1 EXCEPT !.cache = invalidateUserCaches(c1, w1.redis,
                                                                            addedBy)]),
                 201, [kind |-> "member", userId |-> memberData.userId,
                       role |-> memberData.role])

\* updateMemberRole(projectId, userId, { role })
updateMemberRole(w, projectId, userId, roleData) ==
  IF w.members[projectId][userId] = NoRole THEN Result(w, 404, Null)
  ELSE LET w1 == [w EXCEPT !.members[projectId][userId] = roleData.role]
       IN Result([w1 EXCEPT !.cache = invalidateUserCaches(w1.cache, w1.redis, userId)],
                 200, [kind |-> "member", userId |-> userId, role |-> roleData.role])

\* removeProjectMember(projectId, userId)
removeProjectMember(w, projectId, userId) ==
  IF w.members[projectId][userId] = NoRole THEN Result(w, 404, Null)
  ELSE LET w1 == [w EXCEPT !.members[projectId][userId] = NoRole]
       IN Result([w1 EXCEPT !.cache = invalidateUserCaches(w1.cache, w1.redis, userId)],
                 200, Null)

\* ------------------------------------------------------------------ requests

NoEval == [mw |-> "none"]
NoCall == [op |-> "none"]

\* no request is waiting for its response to be written
Idle == ev = NoEval /\ res = NoCall

ProjectEval(requiredRole, userId, projectId, dbOk) ==
  [mw |-> "project", required |-> requiredRole, user |-> userId, id |-> projectId,
   dbOk |-> dbOk,
   out |-> requireProjectAccess(requiredRole, World, NewReq(userId), projectId, dbOk)]

TaskEval(userId, taskId, dbOk) ==
  [mw |-> "task", required |-> NoRole, user |-> userId, id |-> taskId,
   dbOk |-> dbOk,
   out |-> requireTaskAccess(World, NewReq(userId), taskId, dbOk)]

LastSent(rq) == rq.sent[Len(rq.sent)]

Call(op, caller, args, status, value) ==
  [op |-> op, caller |-> caller, args |-> args, status |-> status, value |-> value]

\* a writing request: the request as its middleware leaves it (rq), the handler's
\* service call (op, args) and what that call does when the handler runs (r)
Route(rq, op, caller, args, r) ==
  [rq |-> rq, op |-> op, caller |-> caller, args |-> args, r |-> r]

\* authentication only: the handler always runs
authMiddleware(u) == next(NewReq(u))

\* a writing route: the middleware's request rq, then (once per call of next) the
\* handler, whose service call is r
WriteRoute(rq, r) ==
  /\ Idle
  /\ IF rq.nextCalls > 0
     THEN SetWorld(r.w)
     ELSE UNCHANGED <<users, projects, members, tasks, comments, refreshTokens, clock, cache, redis, sockets>>
  /\ UNCHANGED <<ev, res, proc, hist, sockets>>

\* a writing route with no permission middleware (authentication only)
OpenWriteRoute(r) ==
  /\ Idle
  /\ SetWorld(r.w)
  /\ UNCHANGED <<ev, res, proc, hist, sockets>>

\* a reading route: the evaluation e and the handler's answer are kept until Respond
ReadRoute(e, op, caller, args, r) ==
  /\ Idle
  /\ ev' = e
  /\ IF e.out.nextCalls > 0
     THEN SetWorld(r.w) /\ res' = Call(op, caller, args, r.status, r.value)
     ELSE /\ UNCHANGED <<users, projects, members, tasks, comments, refreshTokens, clock, cache, redis, sockets>>
          /\ res' = Call(op, caller, args, LastSent(e.out), Null)
  /\ UNCHANGED <<proc, hist, sockets>>

\* a reading route with no permission middleware
OpenReadRoute(op, caller, args, r) ==
  /\ Idle
  /\ SetWorld(r.w)
  /\ res' = Call(op, caller, args, r.status, r.value)
  /\ UNCHANGED <<ev, proc, hist, sockets>>

\* the response of a reading route is written
Respond ==
  /\ ~Idle
  /\ ev' = NoEval
  /\ res' = NoCall
  /\ UNCHANGED <<users, projects, members, tasks, comments, refreshTokens, clock, cache, redis, proc, hist, sockets>>

\* a writing request whose answer is kept until Respond: what the middleware did
\* with the request, and the status, body and events of the handler if it ran
Answered(route) ==
  /\ Idle
  /\ ev' = [mw |-> "route", required |-> NoRole, user |-> route.caller,
            id |-> route.args.id, dbOk |-> TRUE, out |-> route.rq]
  /\ IF route.rq.nextCalls > 0
     THEN /\ SetWorld(route.r.w)
          /\ res' = [op |-> route.op, caller |-> route.caller, args |-> route.args,
                     status |-> route.r.status, value |-> route.r.value,
                     events |-> Events(route.r.w), log |-> route.r.w.log]
     ELSE /\ UNCHANGED <<users, projects, members, tasks, comments, refreshTokens, clock, cache, redis, sockets>>
          /\ res' = [op |-> route.op, caller |-> route.caller, args |-> route.args,
                     status |-> LastSent(route.rq), value |-> Null,
                     events |-> <<>>, log |-> <<>>]
  /\ UNCHANGED <<proc, hist, sockets>>

\* the id the next created row gets
NextId(ids, table) ==
  LET free == {i \in 1..Len(ids) : table[ids[i]] = Null}
  IN IF free = {} THEN Absent ELSE ids[CHOOSE i \in free : \A j \in free : i <= j]

\* GET /api/projects/:projectId/tasks is guarded by requireProjectAccess() and reads
\* the store only; the other required roles are requireProjectAccess(requiredRole)
CheckProjectAccess(requiredRole, u, p, dbOk) ==
  /\ Idle
  /\ ev' = ProjectEval(requiredRole, u, p, dbOk)
  /\ UNCHANGED <<users, projects, members, tasks, comments, refreshTokens, clock, cache, redis, res, proc, hist, sockets>>

\* GET /api/projects
GetProjects(u, options) ==
  OpenReadRoute("getUserProjects", u, [options |-> options],
                getUserProjects(World, u, options))

\* POST /api/projects
createNewProject(u, newId) ==
  Route(authMiddleware(u), "createProject", u, [id |-> newId],
        createProject(World, u, newId))
CreateProject(u, ids) ==
  /\ NextId(ids, projects) # Absent
  /\ OpenWriteRoute(createNewProject(u, NextId(ids, projects)).r)

\* GET /api/projects/:id
GetProject(u, p, dbOk) ==
  ReadRoute(ProjectEval(NoRole, u, p, dbOk), "getProjectById", u, [id |-> p],
            getProjectById(World, p, u))

\* PUT /api/projects/:id
updateProjectById(u, p, projectData) ==
  Route(requireProjectManagement(World, NewReq(u), p, TRUE),
        "updateProject", u, [id |-> p, data |-> projectData],
        updateProject(World, p, projectData))
UpdateProject(u, p, projectData) ==
  WriteRoute(updateProjectById(u, p, projectData).rq, updateProjectById(u, p, projectData).r)

\* DELETE /api/projects/:id
deleteProjectById(u, p) ==
  Route(requireProjectOwnership(World, NewReq(u), p, TRUE),
        "deleteProject", u, [id |-> p], deleteProject(World, p))
DeleteProject(u, p) ==
  WriteRoute(deleteProjectById(u, p).rq, deleteProjectById(u, p).r)

\* POST /api/projects/:id/members
addMember(u, p, memberData) ==
  Route(requireProjectManagement(World, NewReq(u), p, TRUE),
        "addProjectMember", u, [id |-> p, data |-> memberData],
        addProjectMember(World, p, memberData, u))
AddMember(u, p, memberData) ==
  WriteRoute(addMember(u, p, memberData).rq, addMember(u, p, memberData).r)

\* PUT /api/projects/:id/members/:userId
updateMember(u, p, userId, roleData) ==
  Route(requireProjectManagement(World, NewReq(u), p, TRUE),
        "updateMemberRole", u, [id |-> p, userId |-> userId, data |-> roleData],
        updateMemberRole(World, p, userId, roleData))
UpdateMember(u, p, userId, roleData) ==
  WriteRoute(updateMember(u, p, userId, roleData).rq, updateMember(u, p, userId, roleData).r)

\* DELETE /api/projects/:id/members/:userId
removeMember(u, p, userId) ==
  Route(requireProjectManagement(World, NewReq(u), p, TRUE),
        "removeProjectMember", u, [id |-> p, userId |-> userId],
        removeProjectMember(World, p, userId))
RemoveMember(u, p, userId) ==
  WriteRoute(removeMember(u, p, userId).rq, removeMember(u, p, userId).r)

\* POST /api/projects/:projectId/tasks
createNewTask(u, p, taskData, newId) ==
  Route(requireTaskEdit(World, NewReq(u), p, TRUE),
        "createTask", u, [id |-> p, data |-> taskData, task |-> newId],
        createTask(World, p, u, taskData, newId))
CreateTask(u, p, taskData, ids) ==
  /\ NextId(ids, tasks) # Absent
  /\ WriteRoute(createNewTask(u, p, taskData, NextId(ids, tasks)).rq,
                createNewTask(u, p, taskData, NextId(ids, tasks)).r)

\* GET /api/tasks/:id
GetTask(u, t, dbOk) ==
  ReadRoute(TaskEval(u, t, dbOk), "getTaskById", u, [id |-> t], getTaskById(World, t))

\* updatedAt stops at MaxVer
CanUpdate(t) == IsRow(tasks[t]) => tasks[t].updatedAt < MaxVer

\* PUT /api/tasks/:id
updateTaskById(u, t, taskData) ==
  Route(requireTaskAccess(World, NewReq(u), t, TRUE),
        "updateTask", u, [id |-> t, data |-> taskData], updateTask(World, t, taskData))
UpdateTask(u, t, taskData) ==
  /\ CanUpdate(t)
  /\ WriteRoute(updateTaskById(u, t, taskData).rq, updateTaskById(u, t, taskData).r)

\* DELETE /api/tasks/:id
deleteTaskById(u, t) ==
  Route(requireTaskAccess(World, NewReq(u), t, TRUE),
        "deleteTask", u, [id |-> t], deleteTask(World, t))
DeleteTask(u, t) ==
  WriteRoute(deleteTaskById(u, t).rq, deleteTaskById(u, t).r)

\* { contains: search } on a nullable string column
contains(column, search) ==
  /\ column # Null
  /\ \E i \in 1..(Len(column.chars) - Len(search) + 1) :
       SubSeq(column.chars, i, i + Len(search) - 1) = search

\* a < b on DATETIME values
DateTimeBefore(a, b) == a.day < b.day \/ (a.day = b.day /\ a.ms < b.ms)

\* whereClause.dueDate = { gte: date.setHours(0, 0, 0, 0), lt: date.setHours(23, 59, 59, 999) }
dueDateWhere(dueDate, day) ==
  /\ dueDate # Null
  /\ ~DateTimeBefore(dueDate, DateTime(day, StartOfDay))
  /\ DateTimeBefore(dueDate, DateTime(day, EndOfDay))

\* whereClause of getTasks: the user's projects and every filter that was sent
tasksWhere(w, userId, filters, t) ==
  /\ IsRow(w.tasks[t])
  /\ \/ w.projects[w.tasks[t].projectId].ownerId = userId
     \/ w.members[w.tasks[t].projectId][userId] # NoRole
  /\ Has(filters, "status") => w.tasks[t].status = filters.status
  /\ Has(filters, "priority") => w.tasks[t].priority = filters.priority
  /\ Has(filters, "assigneeId") => w.tasks[t].assigneeId = filters.assigneeId
  /\ Has(filters, "dueDate") => dueDateWhere(w.tasks[t].dueDate, filters.dueDate)
  /\ Has(filters, "search") =>
       \/ contains(w.tasks[t].title, filters.search)
       \/ contains(w.tasks[t].description, filters.search)

\* tasks in orderBy createdAt desc
TasksNewestFirst == <<"t2", "t1">>

\* getTasks(userId, filters, options): findMany with skip and take, and count
getTasks(w, userId, filters, options) ==
  LET found == SelectSeq(TasksNewestFirst, LAMBDA t : tasksWhere(w, userId, filters, t))
      skip == calculateSkip(options.page, options.limit)
  IN Result(w, 200,
            [kind |-> "tasks",
             tasks |-> SubSeq(found, skip + 1, Min(Len(found), skip + options.limit)),
             total |-> Len(found)])

\* GET /api/tasks
getAllTasks(u, filters, options) ==
  OpenReadRoute("getTasks", u, [filters |-> filters, options |-> options],
                getTasks(World, u, filters, options))

\* POST /api/tasks/:taskId/comments
createNewComment(u, t, commentData, newId) ==
  Route(authMiddleware(u), "createComment", u,
        [id |-> t, data |-> commentData, comment |-> newId],
        createComment(World, t, u, commentData, newId))

\* PUT /api/comments/:id
updateCommentById(u, c, commentData) ==
  Route(authMiddleware(u), "updateComment", u, [id |-> c, data |-> commentData],
        updateComment(World, c, u, commentData))

\* DELETE /api/comments/:id
deleteCommentById(u, c) ==
  Route(authMiddleware(u), "deleteComment", u, [id |-> c], deleteComment(World, c, u))

\* PUT /api/tasks/:id/assign
assignTask(u, t, assigneeId) ==
  Route(authMiddleware(u), "assignTask", u, [id |-> t, assigneeId |-> assigneeId],
        updateTask(World, t, [assigneeId |-> assigneeId]))
AssignTask(u, t, assigneeId) ==
  /\ CanUpdate(t)
  /\ OpenWriteRoute(assignTask(u, t, assigneeId).r)

\* PUT /api/tasks/:id/unassign
unassignTask(u, t) ==
  Route(authMiddleware(u), "unassignTask", u, [id |-> t],
        updateTask(World, t, [assigneeId |-> NoUser]))
UnassignTask(u, t) ==
  /\ CanUpdate(t)
  /\ OpenWriteRoute(unassignTask(u, t).r)

\* the Redis connection drops, breaks or comes back
RedisChange(r) ==
  /\ Idle
  /\ redis # r
  /\ redis' = r
  /\ UNCHANGED <<users, projects, members, tasks, comments, refreshTokens, clock, cache, ev, res, proc, hist, sockets>>

\* the TTL of a cache entry runs out
\* CACHE_TTL.SHORT seconds pass: Redis drops every key whose EX time is reached
Elapse ==
  /\ Idle
  /\ \E k \in CacheKeys : cache[k] # Null
  /\ cache' = [k \in CacheKeys |->
                IF cache[k] = Null THEN Null
                ELSE IF cache[k].age + CACHE_TTL_SHORT >= cache[k].ttl THEN Null
                ELSE [cache[k] EXCEPT !.age = @ + CACHE_TTL_SHORT]]
  /\ UNCHANGED <<users, projects, members, tasks, comments, refreshTokens, clock, redis, ev, res, proc, hist, sockets>>

Expire(key) ==
  /\ Idle
  /\ cache[key] # Null
  /\ cache' = [cache EXCEPT ![key] = Null]
  /\ UNCHANGED <<users, projects, members, tasks, comments, refreshTokens, clock, redis, ev, res, proc, hist, sockets>>

\* ------------------------------------------------------------------ concurrent requests
\* Handlers are async functions: one runs until its next await, then any other may
\* run.  proc[x] is the position of call x between two awaits and what it holds in
\* its local variables; hist records what has returned so far.

Readers == {"r1", "r2"}
Listers == {"l1"}
Updater == "w1"
Callers == Readers \cup Listers \cup {Updater}

IdleProc == [pc |-> "idle"]

\* a call that missed the cache and has not written its result into it yet
Populating(x) == proc[x].pc \in {"find", "set"}

\* getTaskById(t) up to the answer of the cache; after: the update of t that had
\* returned last when the call was made
GetTaskLookup(r, t) ==
  /\ proc[r].pc = "idle"
  /\ LET cachedTask == getCachedTaskDetails(cache, redis, t)
     IN IF cachedTask # Null
        THEN /\ proc' = [proc EXCEPT ![r] = [pc |-> "done", id |-> t,
                                             after |-> hist.returned,
                                             result |-> cachedTask]]
             /\ hist' = hist
        ELSE /\ proc' = [proc EXCEPT ![r] = [pc |-> "find", id |-> t,
                                             after |-> hist.returned]]
             /\ hist' = [hist EXCEPT !.overlap = @ \/ proc[Updater].pc # "idle"]
  /\ UNCHANGED <<users, projects, members, tasks, comments, refreshTokens, clock, cache, redis, ev, res, sockets>>

\* ... prisma.task.findUnique
GetTaskFind(r) ==
  /\ proc[r].pc = "find"
  /\ proc' = [proc EXCEPT ![r] = [pc |-> "set", id |-> @.id, after |-> @.after,
                                  task |-> TaskResponse(World, @.id)]]
  /\ UNCHANGED <<users, projects, members, tasks, comments, refreshTokens, clock, cache, redis, ev, res, hist, sockets>>

\* ... cacheTaskDetails(taskId, task); return task
\* (late: the task was read before a write whose DEL has already been sent)
GetTaskCache(r) ==
  /\ proc[r].pc = "set"
  /\ cache' = cacheTaskDetails(cache, redis, proc[r].id, proc[r].task)
  /\ proc' = [proc EXCEPT ![r] = [pc |-> "done", id |-> @.id, after |-> @.after,
                                  result |-> @.task]]
  /\ hist' = IF "late" \in DOMAIN hist
             THEN [hist EXCEPT !.late = @ \/ (/\ proc[r].task.updatedAt
                                                    < tasks[proc[r].id].updatedAt
                                               /\ proc[Updater].pc # "invalidate")]
             ELSE hist
  /\ UNCHANGED <<users, projects, members, tasks, comments, refreshTokens, clock, redis, ev, res, sockets>>

\* the response is written
CallDone(x) ==
  /\ proc[x].pc = "done"
  /\ proc' = [proc EXCEPT ![x] = IdleProc]
  /\ UNCHANGED <<users, projects, members, tasks, comments, refreshTokens, clock, cache, redis, ev, res, hist, sockets>>

\* getUserProjects(u, options) up to the answer of the cache
GetProjectsLookup(l, u, options) ==
  /\ proc[l].pc = "idle"
  /\ LET cachedResult == getCachedUserProjects(cache, redis, u)
     IN IF cachedResult # Null
        THEN /\ proc' = [proc EXCEPT ![l] = [pc |-> "done", user |-> u,
                                             result |-> cachedResult]]
             /\ hist' = hist
        ELSE /\ proc' = [proc EXCEPT ![l] = [pc |-> "find", user |-> u,
                                             options |-> options]]
             /\ hist' = [hist EXCEPT !.overlap = @ \/ proc[Updater].pc # "idle"]
  /\ UNCHANGED <<users, projects, members, tasks, comments, refreshTokens, clock, cache, redis, ev, res, sockets>>

\* ... prisma.project.findMany and count
GetProjectsFind(l) ==
  /\ proc[l].pc = "find"
  /\ proc' = [proc EXCEPT ![l] = [pc |-> "set", user |-> @.user,
                                  found |-> findUserProjects(World, @.user, @.options)]]
  /\ UNCHANGED <<users, projects, members, tasks, comments, refreshTokens, clock, cache, redis, ev, res, hist, sockets>>

\* ... cacheUserProjects(userId, result); return result
GetProjectsCache(l) ==
  /\ proc[l].pc = "set"
  /\ cache' = cacheUserProjects(cache, redis, proc[l].user, proc[l].found)
  /\ proc' = [proc EXCEPT ![l] = [pc |-> "done", user |-> @.user, result |-> @.found]]
  /\ UNCHANGED <<users, projects, members, tasks, comments, refreshTokens, clock, redis, ev, res, hist, sockets>>

\* updateTask(t, taskData) up to the answer of prisma.task.update
UpdateTaskWrite(t, taskData) ==
  /\ proc[Updater].pc = "idle"
  /\ IsRow(tasks[t])
  /\ CanUpdate(t)
  /\ tasks' = prismaTaskUpdate(World, t, taskData).tasks
  /\ proc' = [proc EXCEPT ![Updater] = [pc |-> "invalidate", id |-> t]]
  /\ hist' = [hist EXCEPT !.overlap = @ \/ \E x \in Readers \cup Listers : Populating(x)]
  /\ UNCHANGED <<users, projects, members, comments, refreshTokens, clock, cache, redis, ev, res, sockets>>

\* ... invalidateTaskCaches: Promise.all sends DEL, DEL and KEYS in one turn
UpdateTaskInvalidate ==
  /\ proc[Updater].pc = "invalidate"
  /\ LET t == proc[Updater].id
         c1 == deleteCached(deleteCached(cache, redis, <<CACHE_KEYS.TASK_DETAILS, t>>),
                            redis, <<CACHE_KEYS.PROJECT_TASKS, tasks[t].projectId>>)
     IN /\ cache' = c1
        /\ proc' = [proc EXCEPT ![Updater] =
                      [pc |-> "del", id |-> t,
                       keys |-> deleteCachedByPatternKeys(c1, redis,
                                                          CACHE_KEYS.USER_PROJECTS)]]
        /\ hist' = [hist EXCEPT !.removed =
                      @ \/ cache[<<CACHE_KEYS.TASK_DETAILS, t>>] # Null]
  /\ UNCHANGED <<users, projects, members, tasks, comments, refreshTokens, clock, redis, ev, res, sockets>>

\* ... DEL of the keys found; return task
UpdateTaskReturn ==
  /\ proc[Updater].pc = "del"
  /\ cache' = deleteCachedByPatternDel(cache, redis, proc[Updater].keys)
  /\ proc' = [proc EXCEPT ![Updater] = IdleProc]
  /\ hist' = [hist EXCEPT !.returned = tasks[proc[Updater].id].updatedAt,
                          !.clean = @ /\ TaskCacheEntries(cache', proc[Updater].id) = {}]
  /\ UNCHANGED <<users, projects, members, tasks, comments, refreshTokens, clock, redis, ev, res, sockets>>

\* concurrent addProjectMember(p, memberData, addedBy) calls
Adders == {"a1", "a2"}

\* ... up to the answer of prisma.user.findUnique
AddMemberFindUser(a, p, memberData, addedBy) ==
  /\ proc[a].pc = "idle"
  /\ proc' = [proc EXCEPT ![a] =
               IF isActiveUser(World, memberData.userId)
               THEN [pc |-> "existing", id |-> p, data |-> memberData, by |-> addedBy]
               ELSE [pc |-> "done", id |-> p, data |-> memberData, status |-> 404]]
  /\ UNCHANGED <<users, projects, members, tasks, comments, refreshTokens, clock, cache, redis, ev, res, hist, sockets>>

\* ... prisma.projectMember.findUnique({ userId_projectId })
AddMemberFindExisting(a) ==
  /\ proc[a].pc = "existing"
  /\ proc' = [proc EXCEPT ![a] =
               IF members[@.id][@.data.userId] # NoRole
               THEN [pc |-> "done", id |-> @.id, data |-> @.data, status |-> 400]
               ELSE [pc |-> "create", id |-> @.id, data |-> @.data, by |-> @.by]]
  /\ UNCHANGED <<users, projects, members, tasks, comments, refreshTokens, clock, cache, redis, ev, res, hist, sockets>>

\* ... prisma.projectMember.create, then emitMemberAdded in the same turn; a rejected
\* create is answered with 'Failed to add project member' (500)
AddMemberCreate(a) ==
  /\ proc[a].pc = "create"
  /\ LET created == projectMemberCreate(World, proc[a].id, proc[a].data)
     IN IF created = Throw
        THEN /\ proc' = [proc EXCEPT ![a] = [pc |-> "done", id |-> @.id, data |-> @.data,
                                             status |-> 500]]
             /\ UNCHANGED <<members, hist, sockets>>
        ELSE /\ members' = created.val.members
             /\ proc' = [proc EXCEPT ![a] = [pc |-> "invalidate", id |-> @.id,
                                             data |-> @.data, by |-> @.by]]
             /\ hist' = [rows |-> hist.rows + 1,
                         events |-> hist.events \o
                           Events(emitMemberAdded(World, proc[a].id, proc[a].data.userId)),
                         roles |-> Append(hist.roles, proc[a].data.role)]
  /\ UNCHANGED <<users, projects, tasks, comments, refreshTokens, clock, cache, redis, ev, res, sockets>>

\* ... Promise.all([invalidateUserCaches(userId), invalidateUserCaches(addedBy)]);
\* return newMember
AddMemberReturn(a) ==
  /\ proc[a].pc = "invalidate"
  /\ cache' = invalidateUserCaches(
                invalidateUserCaches(cache, redis, proc[a].data.userId),
                redis, proc[a].by)
  /\ proc' = [proc EXCEPT ![a] = [pc |-> "done", id |-> @.id, data |-> @.data,
                                  status |-> 201]]
  /\ UNCHANGED <<users, projects, members, tasks, comments, refreshTokens, clock, redis, ev, res, hist, sockets>>

\* ------------------------------------------------------------------ specifications

Init ==
  /\ users = [u \in Users |-> [isActive |-> TRUE]]
  /\ projects = [p \in Projects |-> Null]
  /\ members = [p \in Projects |-> [u \in Users |-> NoRole]]
  /\ tasks = [t \in Tasks |-> Null]
  /\ comments = [c \in Comments |-> Null]
  /\ refreshTokens = [r \in TokenIds |-> Null]
  /\ clock = 0
  /\ sockets = NoSockets
  /\ cache = EmptyCache
  /\ redis = "open"
  /\ ev = NoEval
  /\ res = NoCall
  /\ proc = <<>>
  /\ hist = <<>>

\* the request bodies the validation schemas let through
\* isArchived: z.boolean().optional(), written "true" / "false" / Absent
ProjectDatas == [isArchived : {"true", "false", Absent}]
MemberDatas(US) == [userId : US, role : Roles]
RoleDatas == [role : Roles \ {"OWNER"}]
TaskDatas(US) == [assigneeId : US \cup {NoUser, Absent}]
Options == {[page |-> 1, limit |-> 10], [page |-> 1, limit |-> 1], [page |-> 2, limit |-> 1]}

Range(seq) == {seq[i] : i \in 1..Len(seq)}

\* the writing requests of user u; the users they name are in US, and the projects
\* and tasks they create get the ids pids and tids, in this order
WritesBy(u, US, pids, tids) ==
  LET PS == Range(pids)
      TS == Range(tids) IN
  \/ CreateProject(u, pids)
  \/ \E p \in PS, d \in ProjectDatas : UpdateProject(u, p, d)
  \/ \E p \in PS : DeleteProject(u, p)
  \/ \E p \in PS, d \in MemberDatas(US) : AddMember(u, p, d)
  \/ \E p \in PS, m \in US, d \in RoleDatas : UpdateMember(u, p, m, d)
  \/ \E p \in PS, m \in US : RemoveMember(u, p, m)
  \/ \E p \in PS, d \in TaskDatas(US) : CreateTask(u, p, d, tids)
  \/ \E t \in TS, d \in TaskDatas(US) : UpdateTask(u, t, d)
  \/ \E t \in TS : DeleteTask(u, t)
  \/ \E t \in TS, a \in US : AssignTask(u, t, a)
  \/ \E t \in TS : UnassignTask(u, t)

Writes(US, pids, tids) == \E u \in US : WritesBy(u, US, pids, tids)

\* access control: two users, one project, one task
AccessUsers == {"u1", "u2"}

Next ==
  \/ Writes(AccessUsers, <<"p1">>, <<"t1">>)
  \/ \E r \in Roles \cup {NoRole}, u \in AccessUsers, dbOk \in BOOLEAN :
       CheckProjectAccess(r, u, "p1", dbOk)
  \/ \E u \in AccessUsers, dbOk \in BOOLEAN : GetTask(u, "t1", dbOk)
  \/ Respond

Spec == Init /\ [][Next]_vars

\* cache behaviour: two users, two projects, reads of lists and of single projects
CacheUsers == {"u1", "u2"}
CacheMemberDatas == [userId : CacheUsers, role : {"MEMBER"}]

NextCache ==
  \/ \E u \in CacheUsers : CreateProject(u, ProjectIds)
  \/ \E u \in CacheUsers, p \in Projects, d \in CacheMemberDatas : AddMember(u, p, d)
  \/ \E u \in CacheUsers, p \in Projects, d \in ProjectDatas : UpdateProject(u, p, d)
  \/ \E u \in CacheUsers, o \in Options : GetProjects(u, o)
  \/ \E u \in CacheUsers, p \in Projects : GetProject(u, p, TRUE)
  \/ \E k \in CacheKeys : Expire(k)
  \/ Respond

SpecCache == Init /\ [][NextCache]_vars

\* cache outage: two users, one project, one task, a Redis connection that drops
RedisStates == {"open", "closed", "error"}
OutageTaskDatas == [assigneeId : {Absent, "u2"}]
CacheTaskDatas == [assigneeId : {Absent}]
OutageOptions == {[page |-> 1, limit |-> 10]}
OutageMemberDatas == [userId : {"u2"}, role : {"MEMBER"}]

NextOutage ==
  \/ CreateProject("u1", <<"p1">>)
  \/ \E d \in OutageMemberDatas : AddMember("u1", "p1", d)
  \/ \E m \in CacheUsers : RemoveMember("u1", "p1", m)
  \/ \E d \in ProjectDatas : UpdateProject("u1", "p1", d)
  \/ DeleteProject("u1", "p1")
  \/ \E u \in CacheUsers, d \in OutageTaskDatas : CreateTask(u, "p1", d, <<"t1">>)
  \/ \E u \in CacheUsers, d \in OutageTaskDatas : UpdateTask(u, "t1", d)
  \/ \E u \in CacheUsers : DeleteTask(u, "t1")
  \/ \E u \in CacheUsers, o \in OutageOptions : GetProjects(u, o)
  \/ \E u \in CacheUsers : GetTask(u, "t1", TRUE)
  \/ \E r \in RedisStates : RedisChange(r)
  \/ Respond

SpecOutage == Init /\ [][NextOutage]_vars

\* concurrent reads and updates of task t1 of project p1, created by its owner u1
RaceWorld ==
  LET w0 == [users |-> [u \in Users |-> [isActive |-> TRUE]],
             projects |-> [p \in Projects |-> Null],
             members |-> [p \in Projects |-> [u \in Users |-> NoRole]],
             tasks |-> [t \in Tasks |-> Null],
             comments |-> [c \in Comments |-> Null],
             refreshTokens |-> [r \in TokenIds |-> Null],
             cache |-> EmptyCache,
             redis |-> "open",
             log |-> <<>>]
      w1 == createProject(w0, "u1", "p1").w
  IN createTask(w1, "p1", "u1", [assigneeId |-> Absent], "t1").w

InitRace ==
  /\ users = RaceWorld.users
  /\ projects = RaceWorld.projects
  /\ members = RaceWorld.members
  /\ tasks = RaceWorld.tasks
  /\ comments = RaceWorld.comments
  /\ refreshTokens = [r \in TokenIds |-> Null]
  /\ clock = 0
  /\ sockets = NoSockets
  /\ cache = RaceWorld.cache
  /\ redis = RaceWorld.redis
  /\ ev = NoEval
  /\ res = NoCall
  /\ proc = [x \in Callers |-> IdleProc]
  /\ hist = [returned |-> 0, overlap |-> FALSE, clean |-> TRUE, removed |-> FALSE]

NextRace ==
  \/ \E r \in Readers : GetTaskLookup(r, "t1")
  \/ \E r \in Readers : GetTaskFind(r)
  \/ \E r \in Readers : GetTaskCache(r)
  \/ \E l \in Listers, o \in OutageOptions : GetProjectsLookup(l, "u1", o)
  \/ \E l \in Listers : GetProjectsFind(l)
  \/ \E l \in Listers : GetProjectsCache(l)
  \/ \E x \in Readers \cup Listers : CallDone(x)
  \/ \E d \in CacheTaskDatas : UpdateTaskWrite("t1", d)
  \/ UpdateTaskInvalidate
  \/ UpdateTaskReturn

SpecRace == InitRace /\ [][NextRace]_vars

\* the same calls while time passes
InitStale ==
  /\ users = RaceWorld.users
  /\ projects = RaceWorld.projects
  /\ members = RaceWorld.members
  /\ tasks = RaceWorld.tasks
  /\ comments = RaceWorld.comments
  /\ refreshTokens = [r \in TokenIds |-> Null]
  /\ clock = 0
  /\ sockets = NoSockets
  /\ cache = RaceWorld.cache
  /\ redis = RaceWorld.redis
  /\ ev = NoEval
  /\ res = NoCall
  /\ proc = [x \in Callers |-> IdleProc]
  /\ hist = [returned |-> 0, overlap |-> FALSE, clean |-> TRUE, removed |-> FALSE,
             late |-> FALSE]

NextStale ==
  \/ \E r \in Readers : GetTaskLookup(r, "t1")
  \/ \E r \in Readers : GetTaskFind(r)
  \/ \E r \in Readers : GetTaskCache(r)
  \/ \E r \in Readers : CallDone(r)
  \/ \E d \in CacheTaskDatas : UpdateTaskWrite("t1", d)
  \/ UpdateTaskInvalidate
  \/ UpdateTaskReturn
  \/ Elapse

SpecStale == InitStale /\ [][NextStale]_vars

\* the writing routes of a project, every answer kept: two users, one project, one task
NextRoutes ==
  \/ \E u \in AccessUsers :
       /\ NextId(<<"p1">>, projects) # Absent
       /\ Answered(createNewProject(u, NextId(<<"p1">>, projects)))
  \/ \E u \in AccessUsers, d \in ProjectDatas : Answered(updateProjectById(u, "p1", d))
  \/ \E u \in AccessUsers : Answered(deleteProjectById(u, "p1"))
  \/ \E u \in AccessUsers, d \in MemberDatas(AccessUsers) : Answered(addMember(u, "p1", d))
  \/ \E u \in AccessUsers, m \in AccessUsers, d \in RoleDatas :
       Answered(updateMember(u, "p1", m, d))
  \/ \E u \in AccessUsers, m \in AccessUsers : Answered(removeMember(u, "p1", m))
  \/ \E u \in AccessUsers, d \in TaskDatas(AccessUsers) :
       /\ NextId(<<"t1">>, tasks) # Absent
       /\ Answered(createNewTask(u, "p1", d, NextId(<<"t1">>, tasks)))
  \/ \E u \in AccessUsers, o \in OutageOptions : GetProjects(u, o)
  \/ Respond

SpecRoutes == Init /\ [][NextRoutes]_vars

\* concurrent additions of users to project p1 of u1
MembersWorld ==
  createProject([users |-> [u \in Users |-> [isActive |-> TRUE]],
                 projects |-> [p \in Projects |-> Null],
                 members |-> [p \in Projects |-> [u \in Users |-> NoRole]],
                 tasks |-> [t \in Tasks |-> Null],
                 comments |-> [c \in Comments |-> Null],
                 refreshTokens |-> [r \in TokenIds |-> Null],
                 cache |-> EmptyCache,
                 redis |-> "open",
                 log |-> <<>>], "u1", "p1").w

InitMembers ==
  /\ users = MembersWorld.users
  /\ projects = MembersWorld.projects
  /\ members = MembersWorld.members
  /\ tasks = MembersWorld.tasks
  /\ comments = MembersWorld.comments
  /\ refreshTokens = [r \in TokenIds |-> Null]
  /\ clock = 0
  /\ sockets = NoSockets
  /\ cache = MembersWorld.cache
  /\ redis = MembersWorld.redis
  /\ ev = NoEval
  /\ res = NoCall
  /\ proc = [a \in Adders |-> IdleProc]
  /\ hist = [rows |-> 0, events |-> <<>>, roles |-> <<>>]

NextMembers ==
  \/ \E a \in Adders, d \in [userId : {"u2"}, role : Roles] :
       AddMemberFindUser(a, "p1", d, "u1")
  \/ \E a \in Adders : AddMemberFindExisting(a)
  \/ \E a \in Adders : AddMemberCreate(a)
  \/ \E a \in Adders : AddMemberReturn(a)

SpecMembers == InitMembers /\ [][NextMembers]_vars

\* router.delete('/account', authMiddleware, deactivateAccount)
DeactivateAccount(u) ==
  /\ Idle
  /\ SetWorld(deactivateUserAccount(World, u).w)
  /\ UNCHANGED <<ev, res, proc, hist, sockets>>

\* task mutations on project p1 (owner u1, member u2); u3 owns p2 and has no
\* access to p1
TasksWorld ==
  LET w0 == [users |-> [u \in Users |-> [isActive |-> TRUE]],
             projects |-> [p \in Projects |-> Null],
             members |-> [p \in Projects |-> [u \in Users |-> NoRole]],
             tasks |-> [t \in Tasks |-> Null],
             comments |-> [c \in Comments |-> Null],
             refreshTokens |-> [r \in TokenIds |-> Null],
             cache |-> EmptyCache,
             redis |-> "open",
             log |-> <<>>]
      w1 == createProject(w0, "u1", "p1").w
      w2 == addProjectMember(w1, "p1", [userId |-> "u2", role |-> "MEMBER"], "u1").w
  IN createProject(w2, "u3", "p2").w

InitTasks ==
  /\ users = TasksWorld.users
  /\ projects = TasksWorld.projects
  /\ members = TasksWorld.members
  /\ tasks = TasksWorld.tasks
  /\ comments = TasksWorld.comments
  /\ refreshTokens = [r \in TokenIds |-> Null]
  /\ clock = 0
  /\ sockets = NoSockets
  /\ cache = TasksWorld.cache
  /\ redis = TasksWorld.redis
  /\ ev = NoEval
  /\ res = NoCall
  /\ proc = [x \in Callers |-> IdleProc]
  /\ hist = [returned |-> {}]

\* a well-formed UUID that is no user's id
Stranger == "u9"
CreateTaskDatas == [assigneeId : {Absent, "u2", "u3", Stranger}, status : {Absent}]
UpdateTaskDatas == [assigneeId : {Absent, "u2"}, status : {Absent, "DONE", "IN_REVIEW"}]

\* authMiddleware answers 401 to a deactivated account: callers are active users
NextTasks ==
  \/ \E u \in AccessUsers, d \in CreateTaskDatas :
       /\ isActiveUser(World, u)
       /\ NextId(<<"t1">>, tasks) # Absent
       /\ Answered(createNewTask(u, "p1", d, NextId(<<"t1">>, tasks)))
  \/ \E u \in AccessUsers, d \in UpdateTaskDatas :
       /\ isActiveUser(World, u)
       /\ CanUpdate("t1")
       /\ Answered(updateTaskById(u, "t1", d))
  \/ \E u \in AccessUsers : isActiveUser(World, u) /\ Answered(deleteTaskById(u, "t1"))
  \/ \E u \in AccessUsers : isActiveUser(World, u) /\ GetTask(u, "t1", TRUE)
  \/ \E o \in OutageOptions : GetProjects("u1", o)
  \/ DeactivateAccount("u2")
  \/ Respond

SpecTasks == InitTasks /\ [][NextTasks]_vars

\* comments on task t1 of project p1 (owner u1, member u2); u3 has no access to p1
CommentsWorld ==
  createTask(TasksWorld, "p1", "u2", [assigneeId |-> Absent], "t1").w

InitComments ==
  /\ users = CommentsWorld.users
  /\ projects = CommentsWorld.projects
  /\ members = CommentsWorld.members
  /\ tasks = CommentsWorld.tasks
  /\ comments = CommentsWorld.comments
  /\ refreshTokens = [r \in TokenIds |-> Null]
  /\ clock = 0
  /\ sockets = NoSockets
  /\ cache = CommentsWorld.cache
  /\ redis = CommentsWorld.redis
  /\ ev = NoEval
  /\ res = NoCall
  /\ proc = [x \in Callers |-> IdleProc]
  /\ hist = [returned |-> {}]

CommentIds == <<"c1", "c2">>
CommentDatas == [content : Contents \cup {Absent}]
CanEdit(c) == IsRow(comments[c]) => comments[c].updatedAt < MaxVer

\* authMiddleware answers 401 to a deactivated account: callers are active users
NextComments ==
  \/ \E u \in Users, d \in CommentDatas :
       /\ isActiveUser(World, u)
       /\ NextId(CommentIds, comments) # Absent
       /\ Answered(createNewComment(u, "t1", d, NextId(CommentIds, comments)))
  \/ \E u \in Users, c \in Comments, d \in CommentDatas :
       /\ isActiveUser(World, u)
       /\ CanEdit(c)
       /\ Answered(updateCommentById(u, c, d))
  \/ \E u \in Users, c \in Comments :
       isActiveUser(World, u) /\ Answered(deleteCommentById(u, c))
  \/ DeactivateAccount("u2")
  \/ Respond

SpecComments == InitComments /\ [][NextComments]_vars

\* cached reads of p1 and t1 while time passes
InitTtl ==
  /\ users = CommentsWorld.users
  /\ projects = CommentsWorld.projects
  /\ members = CommentsWorld.members
  /\ tasks = CommentsWorld.tasks
  /\ comments = CommentsWorld.comments
  /\ refreshTokens = [r \in TokenIds |-> Null]
  /\ clock = 0
  /\ sockets = NoSockets
  /\ cache = CommentsWorld.cache
  /\ redis = CommentsWorld.redis
  /\ ev = NoEval
  /\ res = NoCall
  /\ proc = [x \in Callers |-> IdleProc]
  /\ hist = [returned |-> {}]

NextTtl ==
  \/ \E u \in AccessUsers, o \in Options : GetProjects(u, o)
  \/ \E u \in AccessUsers : GetProject(u, "p1", TRUE)
  \/ \E u \in AccessUsers : GetTask(u, "t1", TRUE)
  \/ \E u \in AccessUsers, d \in UpdateTaskDatas :
       CanUpdate("t1") /\ UpdateTask(u, "t1", d)
  \/ Elapse
  \/ Respond

SpecTtl == InitTtl /\ [][NextTtl]_vars

\* task lists: tasks are created in p1 (owner u1, member u2) and p2 (owner u3)
PlainTask ==
  [assigneeId |-> Absent, status |-> "TODO", priority |-> "MEDIUM",
   title |-> Text(<<"a", "b">>), description |-> Null, dueDate |-> Null]
ListedTaskDatas ==
  {PlainTask,
   [PlainTask EXCEPT !.status = "DONE"],
   [PlainTask EXCEPT !.priority = "HIGH"],
   [PlainTask EXCEPT !.assigneeId = "u2"],
   [PlainTask EXCEPT !.title = Text(<<"c">>), !.description = Text(<<"a", "b", "c">>)],
   [PlainTask EXCEPT !.dueDate = DateTime(1, Noon)],
   [PlainTask EXCEPT !.dueDate = DateTime(1, EndOfDay)],
   [PlainTask EXCEPT !.dueDate = DateTime(2, StartOfDay)]}
\* a filters object has the keys that the query string gave
TaskFilters ==
  {[kind |-> "filters"],
   [kind |-> "filters", status |-> "DONE"],
   [kind |-> "filters", priority |-> "HIGH"],
   [kind |-> "filters", assigneeId |-> "u2"],
   [kind |-> "filters", dueDate |-> 1],
   [kind |-> "filters", dueDate |-> 2],
   [kind |-> "filters", search |-> <<"b">>],
   [kind |-> "filters", search |-> <<"b", "c">>],
   [kind |-> "filters", status |-> "TODO", search |-> <<"c">>]}

NextLists ==
  \/ \E d \in ListedTaskDatas : CreateTask("u1", "p1", d, TaskIds)
  \/ \E d \in ListedTaskDatas :
       d.assigneeId = Absent /\ CreateTask("u3", "p2", d, TaskIds)
  \/ \E u \in Users, f \in TaskFilters, o \in Options : getAllTasks(u, f, o)
  \/ Respond

SpecLists == InitTasks /\ [][NextLists]_vars

\* ------------------------------------------------------------------ access control claims

\* the roles that satisfy a required role: VIEWER < MEMBER < ADMIN < OWNER
AtLeast(r) ==
  CASE r = "VIEWER" -> {"VIEWER", "MEMBER", "ADMIN", "OWNER"}
    [] r = "MEMBER" -> {"MEMBER", "ADMIN", "OWNER"}
    [] r = "ADMIN" -> {"ADMIN", "OWNER"}
    [] r = "OWNER" -> {"OWNER"}

IsOwner(u, p) == IsRow(projects[p]) /\ projects[p].ownerId = u
IsMember(u, p) == IsRow(projects[p]) /\ members[p][u] # NoRole

\* OWNER for the owner, else the role of the membership row, else none
EffectiveRole(u, p) == IF IsOwner(u, p) THEN "OWNER" ELSE members[p][u]

\* the project the evaluation ev is about, when its lookup found one
EvTarget ==
  IF ev.mw = "project" THEN IF IsRow(projects[ev.id]) THEN ev.id ELSE Absent
  ELSE IF ev.mw = "task" /\ IsRow(tasks[ev.id]) THEN tasks[ev.id].projectId
  ELSE Absent

\* the lookup of the evaluation ev succeeded and found its project or task
EvFound == ev.mw # "none" /\ ev.dbOk /\ EvTarget # Absent

Denied403(rq) == rq.sent = <<403>> /\ rq.nextCalls = 0 /\ rq.project = Null
GrantedAs(rq, role) ==
  rq.sent = <<>> /\ rq.nextCalls = 1 /\ rq.project # Null /\ rq.project.userRole = role

\* C1: on a non-archived project, requireProjectAccess(r) calls next for a user with
\* effective role e exactly when e ranks at least r, and answers 403 otherwise
C1_RankDecides ==
  (/\ EvFound /\ ev.mw = "project" /\ ev.required # NoRole
   /\ ~projects[ev.id].isArchived
   /\ EffectiveRole(ev.user, ev.id) # NoRole)
  => /\ Granted(ev.out) <=> EffectiveRole(ev.user, ev.id) \in AtLeast(ev.required)
     /\ ~Granted(ev.out) => Denied403(ev.out)

\* a MEMBER was denied by requireProjectAccess('ADMIN')
C1_Witness ==
  /\ EvFound /\ ev.mw = "project" /\ ev.required = "ADMIN"
  /\ ~projects[ev.id].isArchived
  /\ EffectiveRole(ev.user, ev.id) = "MEMBER"
  /\ Denied403(ev.out)

\* C2: the owner of the project is granted access with userRole OWNER by both
\* middlewares, whatever membership row the owner also holds
C2_OwnerGrantedAsOwner ==
  (EvFound /\ IsOwner(ev.user, EvTarget)) => GrantedAs(ev.out, "OWNER")

\* C3 as stated: for a member u (not the owner) with role r the access check attaches
\* exactly r (a required role that r does not reach aside)
C3_MemberRoleAttached ==
  (/\ EvFound /\ ~IsOwner(ev.user, EvTarget) /\ IsMember(ev.user, EvTarget)
   /\ (ev.required # NoRole => members[EvTarget][ev.user] \in AtLeast(ev.required)))
  => GrantedAs(ev.out, members[EvTarget][ev.user])

\* C3 amended: requireTaskAccess attaches the member's role r; requireProjectAccess
\* attaches r when the project is not archived and r reaches the required role, and
\* otherwise answers 403 and attaches nothing; a user who is neither owner nor member
\* is denied by requireProjectAccess with 403
C3_MemberRoleAttachedUnlessArchived ==
  (EvFound /\ ~IsOwner(ev.user, EvTarget))
  => IF IsMember(ev.user, EvTarget)
     THEN IF ev.mw = "task"
               \/ (/\ ~projects[EvTarget].isArchived
                   /\ (ev.required # NoRole
                         => members[EvTarget][ev.user] \in AtLeast(ev.required)))
          THEN GrantedAs(ev.out, members[EvTarget][ev.user])
          ELSE Denied403(ev.out)
     ELSE ev.mw = "project" => Denied403(ev.out)

\* a VIEWER member passed requireProjectAccess() and got role VIEWER attached
C3_Witness ==
  /\ EvFound /\ ev.mw = "project" /\ ~IsOwner(ev.user, EvTarget)
  /\ members[EvTarget][ev.user] = "VIEWER"
  /\ GrantedAs(ev.out, "VIEWER")

\* C4: every access check about an archived project answers 403 to a user who is
\* not its owner and never calls the route handler
C4_ArchivedDeniesNonOwner ==
  (EvFound /\ projects[EvTarget].isArchived /\ ~IsOwner(ev.user, EvTarget))
  => Denied403(ev.out)

IsCreator(u, t) == IsRow(tasks[t]) /\ tasks[t].createdById = u
IsAssignee(u, t) == IsRow(tasks[t]) /\ tasks[t].assigneeId = u

\* C5: requireTaskAccess grants exactly to the task's creator, its assignee, the
\* project's owner and the project's members; creator or assignee alone get VIEWER;
\* everybody else gets 403
C5_TaskAccess ==
  (EvFound /\ ev.mw = "task")
  => /\ Granted(ev.out) <=> \/ IsCreator(ev.user, ev.id) \/ IsAssignee(ev.user, ev.id)
                            \/ IsOwner(ev.user, EvTarget) \/ IsMember(ev.user, EvTarget)
     /\ (Granted(ev.out) /\ ~IsOwner(ev.user, EvTarget) /\ ~IsMember(ev.user, EvTarget))
          => GrantedAs(ev.out, "VIEWER")
     /\ ~Granted(ev.out) => Denied403(ev.out)

\* the assignee, who is neither creator, owner nor member, was let in as VIEWER
C5_Witness ==
  /\ EvFound /\ ev.mw = "task"
  /\ IsAssignee(ev.user, ev.id) /\ ~IsCreator(ev.user, ev.id)
  /\ ~IsOwner(ev.user, EvTarget) /\ ~IsMember(ev.user, EvTarget)
  /\ GrantedAs(ev.out, "VIEWER")

\* C6: an evaluation ends in exactly one of: next called once with req.project
\* attached and nothing sent; one 403 sent; one 404 sent (nothing found). A failed
\* lookup gives 403, and next is never called together with a response
C6_OneOutcome ==
  ev.mw # "none"
  => /\ \/ ev.out.sent = <<>> /\ ev.out.nextCalls = 1 /\ ev.out.project # Null
        \/ Denied403(ev.out)
        \/ /\ ev.out.sent = <<404>> /\ ev.out.nextCalls = 0 /\ ev.out.project = Null
           /\ ev.dbOk /\ EvTarget = Absent
     /\ ~ev.dbOk => Denied403(ev.out)

\* the lookup of requireTaskAccess failed and the answer was 403
C6_Witness == ev.mw = "task" /\ ~ev.dbOk /\ Denied403(ev.out)

\* the user's only relation to the project is a VIEWER membership
OnlyViewer(u, p) ==
  /\ IsRow(projects[p]) /\ ~IsOwner(u, p) /\ members[p][u] = "VIEWER"
  /\ \A t \in Tasks : (IsRow(tasks[t]) /\ tasks[t].projectId = p)
                        => (~IsCreator(u, t) /\ ~IsAssignee(u, t))

\* project p, its membership rows and its tasks are what they were
ProjectUntouched(p) ==
  /\ projects'[p] = projects[p]
  /\ members'[p] = members[p]
  /\ \A t \in Tasks :
       (IsRow(tasks[t]) /\ tasks[t].projectId = p) => tasks'[t] = tasks[t]
  /\ \A t \in Tasks :
       (IsRow(tasks'[t]) /\ tasks'[t].projectId = p) => tasks'[t] = tasks[t]

\* C10: no request of a user whose only relation to a project is a VIEWER membership
\* changes the project, its membership rows or its tasks
C10_ViewerReadOnly ==
  [][\A u \in AccessUsers :
       (OnlyViewer(u, "p1") /\ WritesBy(u, AccessUsers, <<"p1">>, <<"t1">>))
         => ProjectUntouched("p1")]_vars

\* ------------------------------------------------------------------ cache claims

\* what C7 promises: when updateTask returned, the cache held no entry under
\* task:details:T or user:projects:*, and a getTaskById(T) made after an update
\* returned does not answer with a task older than that update
NoStaleTask ==
  /\ hist.clean
  /\ \A r \in Readers :
       proc[r].pc = "done" => proc[r].result.updatedAt >= proc[r].after

\* C7 as stated: after updateTask on T has returned (cache reachable), the cache
\* holds no task:details:T and no user:projects:* entry, and every getTaskById(T)
\* issued after that return yields the post-update task
C7_UpdateInvalidates == NoStaleTask

\* C7 amended: the same, as long as no read that missed the cache was in flight
\* while an updateTask was in flight
C7_UpdateInvalidatesUnlessOverlap == ~hist.overlap => NoStaleTask

\* an update removed a cached copy of the task and returned, and a getTaskById made
\* after that return, with no overlapping read, answered with the updated task
C7_Witness ==
  /\ ~hist.overlap
  /\ hist.removed
  /\ hist.returned >= 1
  /\ \E r \in Readers : /\ proc[r].pc = "done"
                         /\ proc[r].after = hist.returned
                         /\ proc[r].result.updatedAt = hist.returned

\* two answers are the same once serialised into the HTTP response
SameJSON(a, b) == JSONparse(JSONstringify(a)) = JSONparse(JSONstringify(b))

\* value is what the store answers now to some read of user u: nothing was written
\* since the read that produced it
AnswerOfStore(u, value) ==
  \/ \E p \in Projects :
       hasProjectAccess(World, p, u) /\ SameJSON(value, ProjectResponse(World, p))
  \/ \E o \in Options : SameJSON(value, findUserProjects(World, u, o))

\* C8: the cache never changes what a read returns: with no write since the cached
\* answer was read from the store, getProjectById(P, u) returns project P and
\* getUserProjects(u, options) returns the page options select, as the store would
C8_CacheTransparent ==
  /\ (res.op = "getProjectById" /\ res.status = 200 /\ AnswerOfStore(res.caller, res.value))
       => /\ IsRow(projects[res.args.id])
          /\ SameJSON(res.value, ProjectResponse(World, res.args.id))
  /\ (res.op = "getUserProjects" /\ res.status = 200
        /\ AnswerOfStore(res.caller, res.value))
       => SameJSON(res.value, findUserProjects(World, res.caller, res.args.options))

StoreOf(w) == <<w.users, w.projects, w.members, w.tasks, w.comments>>

\* the service call answers and writes the store alike in both worlds, and leaves the
\* unreachable cache of the first as it was
SameOutcome(a, b) ==
  /\ a.status = b.status
  /\ a.value = b.value
  /\ StoreOf(a.w) = StoreOf(b.w)
  /\ a.w.cache = cache

\* the present world, whose Redis connection is in state r
Down(r) == [World EXCEPT !.redis = r]
\* the present store with a working, empty cache
Fresh == [World EXCEPT !.cache = EmptyCache, !.redis = "open"]

CacheLayerSilent(r) ==
  \A k \in CacheKeys :
    /\ getCached(cache, r, k) = Null
    /\ setCached(cache, r, k, [kind |-> "any", dates |-> "Date"], CACHE_TTL_MEDIUM) = cache
    /\ deleteCached(cache, r, k) = cache
    /\ deleteCachedByPattern(cache, r, k[1]) = cache

ServicesUnaffected(r) ==
  /\ \A t \in Tasks : SameOutcome(getTaskById(Down(r), t), getTaskById(Fresh, t))
  /\ \A u \in CacheUsers, o \in Options :
       SameOutcome(getUserProjects(Down(r), u, o), getUserProjects(Fresh, u, o))
  /\ \A u \in CacheUsers, p \in Projects :
       SameOutcome(getProjectById(Down(r), p, u), getProjectById(Fresh, p, u))
  /\ \A u \in CacheUsers, p \in Projects, d \in OutageTaskDatas, t \in Tasks :
       SameOutcome(createTask(Down(r), p, u, d, t), createTask(Fresh, p, u, d, t))
  /\ \A t \in Tasks, d \in OutageTaskDatas :
       SameOutcome(updateTask(Down(r), t, d), updateTask(Fresh, t, d))
  /\ \A t \in Tasks : SameOutcome(deleteTask(Down(r), t), deleteTask(Fresh, t))
  /\ \A u \in CacheUsers, p \in Projects :
       SameOutcome(createProject(Down(r), u, p), createProject(Fresh, u, p))
  /\ \A p \in Projects, d \in ProjectDatas :
       SameOutcome(updateProject(Down(r), p, d), updateProject(Fresh, p, d))
  /\ \A p \in Projects : SameOutcome(deleteProject(Down(r), p), deleteProject(Fresh, p))
  /\ \A u \in CacheUsers, p \in Projects, d \in CacheMemberDatas :
       SameOutcome(addProjectMember(Down(r), p, d, u), addProjectMember(Fresh, p, d, u))
  /\ \A u \in CacheUsers, p \in Projects, d \in RoleDatas :
       SameOutcome(updateMemberRole(Down(r), p, u, d), updateMemberRole(Fresh, p, u, d))
  /\ \A u \in CacheUsers, p \in Projects :
       SameOutcome(removeProjectMember(Down(r), p, u), removeProjectMember(Fresh, p, u))

\* C9: a cache backend that is closed or throws is invisible: getCached misses, the
\* writes of the cache layer return normally, and every service operation answers
\* and leaves the store as it would with a working, empty cache; a read made during
\* the outage answers from the store
C9_BackendInvisible ==
  /\ redis # "open" => CacheLayerSilent(redis) /\ ServicesUnaffected(redis)
  /\ (redis # "open" /\ res.op = "getTaskById" /\ res.status = 200)
       => res.value = TaskResponse(World, res.args.id)
  /\ (redis # "open" /\ res.op = "getUserProjects")
       => /\ res.status = 200
          /\ res.value = findUserProjects(World, res.caller, res.args.options)

\* during an outage a read of a task was answered from the store although the cache
\* still holds an older copy of the task
C9_Witness ==
  /\ redis # "open"
  /\ res.op = "getTaskById"
  /\ res.status = 200
  /\ cache[<<CACHE_KEYS.TASK_DETAILS, res.args.id>>] # Null
  /\ ~SameJSON(JSONparse(cache[<<CACHE_KEYS.TASK_DETAILS, res.args.id>>].data), res.value)

\* ------------------------------------------------------------------ route claims

\* the documented permission levels: Member creates tasks, Admin manages members and
\* settings, Owner deletes
RequiredLevel(op) ==
  CASE op = "createTask" -> "MEMBER"
    [] op \in {"updateProject", "addProjectMember", "updateMemberRole",
               "removeProjectMember"} -> "ADMIN"
    [] op = "deleteProject" -> "OWNER"

LevelledOps ==
  {"createTask", "updateProject", "addProjectMember", "updateMemberRole",
   "removeProjectMember", "deleteProject"}

\* this step is a writing request of a project route
RouteStep == ev.mw = "none" /\ ev'.mw = "route" /\ res'.op \in LevelledOps

\* C11: a caller whose effective role in P is below the level of the route gets 403,
\* and the store, the cache and the emitted events are unchanged
C11_RoutesEnforceLevels ==
  [][(/\ RouteStep
      /\ IsRow(projects[res'.args.id])
      /\ EffectiveRole(res'.caller, res'.args.id) \notin AtLeast(RequiredLevel(res'.op)))
     => /\ res'.status = 403
        /\ res'.events = <<>>
        /\ UNCHANGED <<users, projects, members, tasks, comments, refreshTokens, clock, cache, sockets>>]_vars

\* a MEMBER asked to add a member and got 403
C11_Witness ==
  /\ ev.mw = "route"
  /\ res.op = "addProjectMember"
  /\ res.status = 403
  /\ EffectiveRole(res.caller, res.args.id) = "MEMBER"

\* C12: the OWNER role exists only through project.ownerId: no membership row has
\* role OWNER, and the owner of a project has no membership row in it (so that each
\* user has at most one role per project)
C12_OwnerRoleImplicit ==
  \A p \in Projects, u \in Users :
    IsRow(projects[p])
      => /\ members[p][u] # "OWNER"
         /\ projects[p].ownerId = u => members[p][u] = NoRole

\* C13: however concurrent addProjectMember calls for one (user, project) interleave,
\* at most one membership row for the pair ever exists; a call that finds or races
\* with the existing row fails, leaves that row's role as it is and emits no
\* member_added event
C13_OneMembershipRow ==
  /\ hist.rows <= 1
  /\ Len(hist.events) = hist.rows
  /\ hist.rows = 1 => members["p1"]["u2"] = hist.roles[1]
  /\ hist.rows = 0 => members["p1"]["u2"] = NoRole
  /\ Cardinality({a \in Adders : proc[a].pc = "done" /\ proc[a].status = 201}) <= 1

\* two calls raced: both found no row, one created it and the other was rejected
C13_Witness ==
  /\ hist.rows = 1
  /\ \E a \in Adders, b \in Adders :
       /\ proc[a].pc = "done" /\ proc[a].status = 201
       /\ proc[b].pc = "done" /\ proc[b].status = 500
       /\ proc[b].data.role # members["p1"]["u2"]

\* ------------------------------------------------------------------ task claims

\* the handler of a recorded route ran and called the service op
ServiceStep(op) ==
  /\ ev.mw = "none" /\ ev'.mw = "route"
  /\ res'.op = op
  /\ ev'.out.nextCalls > 0

\* the assignee given is not an existing active user, or is neither owner nor member of p
InvalidAssignee(a, p) ==
  /\ a \notin {Absent, NoUser}
  /\ \/ a \notin Users
     \/ ~users[a].isActive
     \/ ~IsOwner(a, p) /\ ~IsMember(a, p)

\* C14: createTask with an assigneeId that is not an existing active user, or that is
\* neither owner nor member of the project, fails with 400 and has no effect (no task
\* row, no task_created event, no cache key invalidated); with no assigneeId or a
\* valid one it creates the task with createdById set to the caller
C14_CreateTaskValidatesAssignee ==
  [][ServiceStep("createTask") =>
       IF InvalidAssignee(res'.args.data.assigneeId, res'.args.id)
       THEN /\ res'.status = 400
            /\ res'.log = <<>>
            /\ UNCHANGED <<users, projects, members, tasks, comments, refreshTokens, clock, cache, sockets>>
       ELSE /\ res'.status = 201
            /\ ~IsRow(tasks[res'.args.task])
            /\ IsRow(tasks'[res'.args.task])
            /\ tasks'[res'.args.task].createdById = res'.caller
            /\ tasks'[res'.args.task].projectId = res'.args.id
            /\ \E i \in 1..Len(res'.events) : res'.events[i].type = "task_created"]_vars

\* a create was refused because the active assignee has no access to the project
C14_Witness ==
  /\ ev.mw = "route" /\ res.op = "createTask" /\ res.status = 400
  /\ res.args.data.assigneeId \in Users
  /\ users[res.args.data.assigneeId].isActive
  /\ ~IsRow(tasks[res.args.task])

\* C15: an updateTask that sets status DONE makes the stored completedAt non-null; one
\* that sets any other status makes it null; one that gives no status leaves status
\* and completedAt as they are while the other supplied fields are updated
C15_CompletedAtFollowsStatus ==
  [][(ServiceStep("updateTask") /\ res'.status = 200) =>
       LET t == res'.args.id
           d == res'.args.data
       IN /\ d.status = "DONE" =>
               /\ tasks'[t].status = "DONE"
               /\ tasks'[t].completedAt = Date(tasks'[t].updatedAt)
          /\ d.status \in TaskStatuses \ {"DONE"} =>
               /\ tasks'[t].status = d.status
               /\ tasks'[t].completedAt = Null
          /\ d.status = Absent =>
               /\ tasks'[t].status = tasks[t].status
               /\ tasks'[t].completedAt = tasks[t].completedAt
          /\ d.assigneeId # Absent => tasks'[t].assigneeId = d.assigneeId
          /\ d.assigneeId = Absent => tasks'[t].assigneeId = tasks[t].assigneeId]_vars

\* a completed task was moved back to another status and lost its completedAt
C15_Witness ==
  /\ ev.mw = "route" /\ res.op = "updateTask" /\ res.status = 200
  /\ res.args.data.status = "IN_REVIEW"
  /\ tasks[res.args.id].updatedAt = 2
  /\ tasks[res.args.id].completedAt = Null
  /\ res.value.status = "IN_REVIEW"

\* ------------------------------------------------------------------ comment claims

CommentStep == ServiceStep("updateComment") \/ ServiceStep("deleteComment")

\* the caller owns the project of the comment's task
OwnsProjectOf(u, c) == IsOwner(u, tasks[comments[c].taskId].projectId)

C17_TtlPolicy ==
  \A k \in CacheKeys :
    cache[k] # Null =>
      /\ k[1] = "user:projects:" => cache[k].ttl = 15 * 60
      /\ k[1] = "task:details:" => cache[k].ttl = 5 * 60
      /\ cache[k].age < cache[k].ttl

\* a project list that has been cached for ten minutes is there next to a fresh task
C17_Witness ==
  \E u \in Users, t \in Tasks :
    /\ cache[<<"user:projects:", u>>] # Null
    /\ cache[<<"user:projects:", u>>].age = 10 * 60
    /\ cache[<<"task:details:", t>>] # Null
    /\ cache[<<"task:details:", t>>].age = 0

\* ------------------------------------------------------------------ task list claims

\* task t is one that user u may see and that satisfies every filter of f that was sent
Matches(u, f, t) ==
  /\ IsRow(tasks[t])
  /\ IsOwner(u, tasks[t].projectId) \/ IsMember(u, tasks[t].projectId)
  /\ Has(f, "status") => tasks[t].status = f.status
  /\ Has(f, "priority") => tasks[t].priority = f.priority
  /\ Has(f, "assigneeId") => tasks[t].assigneeId = f.assigneeId
  /\ Has(f, "dueDate") => tasks[t].dueDate # Null /\ tasks[t].dueDate.day = f.dueDate
  /\ Has(f, "search") =>
       \E column \in {tasks[t].title, tasks[t].description} :
         /\ column # Null
         /\ \E i \in 1..Len(column.chars), j \in 0..Len(column.chars) :
              SubSeq(column.chars, i, j) = f.search

\* C18: getTasks(u, filters, options) returns the tasks whose project is owned by u or
\* has u as a member and that satisfy every supplied filter (status, priority,
\* assigneeId, due day, search text in title or description), a page of them at a
\* time, and total is the number of such tasks; a task of a project where u is neither
\* owner nor member is never returned
C18_GetTasksFilters ==
  res.op = "getTasks" =>
    LET matching == {t \in Tasks : Matches(res.caller, res.args.filters, t)}
        returned == Range(res.value.tasks)
    IN /\ res.status = 200
       /\ returned \subseteq matching
       /\ res.value.total = Cardinality(matching)
       /\ (res.args.options.page = 1 /\ res.args.options.limit >= Cardinality(matching))
            => returned = matching

\* ------------------------------------------------------------------ ordering claims

TaskMutations == {"createTask", "updateTask", "deleteTask"}

\* C19: in every task mutation the steps are store write, then cache invalidation,
\* then emission: the cache is never invalidated before the store write is done, and
\* no task_created, task_updated or task_deleted event is emitted while the cache
\* still holds an entry from before the mutation
C19_WriteInvalidateEmit ==
  (ev.mw = "route" /\ res.op \in TaskMutations) =>
    \A i \in 1..Len(res.log) :
      /\ res.log[i].kind = "invalidate" =>
           \E j \in 1..(i - 1) : res.log[j].kind = "write"
      /\ res.log[i].kind = "emit" =>
           /\ \E j \in 1..(i - 1) : res.log[j].kind = "invalidate"
           /\ res.log[i].cached = {}

MembershipChanges == {"addProjectMember", "updateMemberRole", "removeProjectMember"}

\* what the entry under user:projects:{u} says about the membership of project p
CachedMembership(u, p) ==
  LET data == cache[<<"user:projects:", u>>].data.json
  IN IF data.kind = "list" /\ p \in DOMAIN data.members THEN Ok(data.members[p])
     ELSE IF data.kind = "project" /\ data.id = p THEN Ok(data.members)
     ELSE Null

\* C20: after addProjectMember, updateMemberRole or removeProjectMember on project P
\* has returned, no cached project list of any user (the owner and every member of P,
\* not only the user who was added, changed or removed) still holds P's membership as
\* it was before the change
C20_MembershipChangeInvalidatesAll ==
  (ev.mw = "route" /\ res.op \in MembershipChanges /\ res.status \in {200, 201}) =>
    \A u \in Users :
      (cache[<<"user:projects:", u>>] # Null
         /\ CachedMembership(u, res.args.id) # Null)
        => CachedMembership(u, res.args.id).val = members[res.args.id]

\* ------------------------------------------------------------------ stale read claims

\* the cache holds a copy of task t from before the last write of t
StaleEntry(t) ==
  /\ cache[<<"task:details:", t>>] # Null
  /\ cache[<<"task:details:", t>>].data.json.updatedAt < tasks[t].updatedAt

\* the call of reader r read the store (its answer did not go through JSON)
AnsweredFromStore(r) == proc[r].pc = "done" /\ proc[r].result.dates = "Date"

\* C21: with getTaskById(T) concurrent to updateTask(T), the pre-update value of T is
\* in the cache after updateTask's invalidation only if a reader read the store before
\* the write and wrote the cache after the invalidation call; such an entry lives for
\* at most the 5 minute TTL or until the next invalidation of T; and a reader that
\* starts after updateTask returned and finds no cache entry returns the post-update
\* value
C21_StaleOnlyByLateReader ==
  /\ [](\A t \in Tasks :
          StaleEntry(t) =>
            /\ proc[Updater].pc # "invalidate" => hist.late
            /\ cache[<<"task:details:", t>>].ttl = 5 * 60
            /\ cache[<<"task:details:", t>>].age < 5 * 60)
  /\ [](\A r \in Readers :
          AnsweredFromStore(r) => proc[r].result.updatedAt >= proc[r].after)
  /\ [][(proc[Updater].pc = "invalidate" /\ proc'[Updater].pc = "del")
          => cache'[<<"task:details:", proc[Updater].id>>] = Null]_vars

\* updateTask has returned and the cache holds the task as it was before the update,
\* put there by a reader that had read the store before the write
C21_Witness ==
  /\ proc[Updater].pc = "idle"
  /\ hist.returned = tasks["t1"].updatedAt
  /\ StaleEntry("t1")
  /\ hist.late

\* ------------------------------------------------------------------ authentication

UserIds == <<"u1", "u2", "u3">>
RefreshTokenIds == <<"r1", "r2", "r3">>

\* String.prototype.toLowerCase on the e-mail addresses and user names of the model
Emails == {"Ann@x.io", "ann@x.io", "bob@x.io"}
Usernames == {"Ann", "ann", "bob"}
toLowerCase(s) ==
  IF s = "Ann@x.io" THEN "ann@x.io" ELSE IF s = "Ann" THEN "ann" ELSE s

\* registerSchema: email and username are lower-cased by the validation
registerSchema(body) ==
  [email |-> toLowerCase(body.email), username |-> toLowerCase(body.username),
   password |-> body.password]

\* prisma.user.findFirst({ where: { OR: [{ email }, { username }] } })
userFindFirst(table, email, username) ==
  LET found == {i \in 1..Len(UserIds) :
                  /\ IsRow(table[UserIds[i]])
                  /\ \/ table[UserIds[i]].email = toLowerCase(email)
                     \/ table[UserIds[i]].username = toLowerCase(username)}
  IN IF found = {} THEN NoUser
     ELSE UserIds[CHOOSE i \in found : \A j \in found : i <= j]

\* the unique indexes users_email_key and users_username_key
usersUniqueIndexes(table, row) ==
  \A u \in Users :
    IsRow(table[u]) => table[u].email # row.email /\ table[u].username # row.username

\* jwt.sign({ userId }, secret, { expiresIn: '7d', subject: userId }): the token is
\* a function of the user and of the second it is signed in (iat), nothing else
JWT_REFRESH_EXPIRES_IN == 7 * 86400
generateRefreshToken(userId, now) ==
  [userId |-> userId, iat |-> now, exp |-> now + JWT_REFRESH_EXPIRES_IN]

\* the row of refreshToken.create: expiresAt is 7 days from now
RefreshTokenRow(token, userId, now) ==
  [token |-> token, userId |-> userId, expiresAt |-> now + 7 * 24 * 60 * 60]

Registrars == {"g1", "g2"}
RegisterBodies == [email : Emails, username : Usernames, password : {"pw1"}]

\* registerUser(userData) up to the answer of findFirst: ApiError 400 when a user
\* with this email or username exists
RegisterFind(g, body) ==
  /\ proc[g].pc = "idle"
  /\ LET userData == registerSchema(body)
         existingUser == userFindFirst(users, userData.email, userData.username)
     IN proc' = [proc EXCEPT ![g] =
                   IF existingUser # NoUser
                   THEN [pc |-> "done", userData |-> userData, status |-> 400,
                         taken |-> TRUE, user |-> NoUser, token |-> Null]
                   ELSE [pc |-> "create", userData |-> userData, taken |-> FALSE]]
  /\ UNCHANGED <<users, projects, members, tasks, comments, refreshTokens, clock,
                 cache, redis, ev, res, hist, sockets>>

\* ... prisma.user.create: rejected by a unique index (P2002), which the catch block
\* turns into ApiError('Registration failed', 500)
RegisterCreate(g) ==
  /\ proc[g].pc = "create"
  /\ NextId(UserIds, users) # Absent
  /\ LET id == NextId(UserIds, users)
         row == [isActive |-> TRUE,
                 email |-> toLowerCase(proc[g].userData.email),
                 username |-> toLowerCase(proc[g].userData.username),
                 password |-> proc[g].userData.password]
     IN IF usersUniqueIndexes(users, row)
        THEN /\ users' = [users EXCEPT ![id] = row]
             /\ proc' = [proc EXCEPT ![g] = [pc |-> "token", userData |-> @.userData,
                                             taken |-> FALSE, user |-> id]]
        ELSE /\ users' = users
             /\ proc' = [proc EXCEPT ![g] = [pc |-> "done", userData |-> @.userData,
                                             status |-> 500, taken |-> TRUE,
                                             user |-> NoUser, token |-> Null]]
  /\ UNCHANGED <<projects, members, tasks, comments, refreshTokens, clock,
                 cache, redis, ev, res, hist, sockets>>

\* ... generateTokenPair; prisma.refreshToken.create; return
RegisterToken(g) ==
  /\ proc[g].pc = "token"
  /\ NextId(RefreshTokenIds, refreshTokens) # Absent
  /\ LET id == NextId(RefreshTokenIds, refreshTokens)
         token == generateRefreshToken(proc[g].user, clock)
     IN /\ refreshTokens' =
             [refreshTokens EXCEPT ![id] = RefreshTokenRow(token, proc[g].user, clock)]
        /\ proc' = [proc EXCEPT ![g] = [pc |-> "done", userData |-> @.userData,
                                        status |-> 201, taken |-> FALSE,
                                        user |-> @.user, token |-> token]]
  /\ UNCHANGED <<users, projects, members, tasks, comments, clock,
                 cache, redis, ev, res, hist, sockets>>

\* a second passes
Tick ==
  /\ clock < MaxClock
  /\ clock' = clock + 1
  /\ UNCHANGED <<users, projects, members, tasks, comments, refreshTokens,
                 cache, redis, ev, res, proc, hist, sockets>>

\* one registered user; two registrations in flight
InitRegister ==
  /\ users = [u \in Users |->
                IF u = "u1" THEN [isActive |-> TRUE, email |-> "ann@x.io",
                                  username |-> "ann", password |-> "pw1"]
                ELSE Null]
  /\ projects = [p \in Projects |-> Null]
  /\ members = [p \in Projects |-> [u \in Users |-> NoRole]]
  /\ tasks = [t \in Tasks |-> Null]
  /\ comments = [c \in Comments |-> Null]
  /\ refreshTokens = [r \in TokenIds |-> Null]
  /\ clock = 0
  /\ sockets = NoSockets
  /\ cache = EmptyCache
  /\ redis = "open"
  /\ ev = NoEval
  /\ res = NoCall
  /\ proc = [g \in Registrars |-> IdleProc]
  /\ hist = Null

NextRegister ==
  \/ \E g \in Registrars, body \in RegisterBodies : RegisterFind(g, body)
  \/ \E g \in Registrars : RegisterCreate(g)
  \/ \E g \in Registrars : RegisterToken(g)
  \/ \E g \in Registrars : CallDone(g)
  \/ Tick

SpecRegister == InitRegister /\ [][NextRegister]_vars

\* ------------------------------------------------------------------ registration claims

\* the registration of g met a user with its email or username, at findFirst or at
\* the unique indexes
MetExistingUser(g) == proc[g].pc = "done" /\ proc[g].taken

\* C22: registerUser with an email or username equal, after lower-casing, to that of
\* an existing user fails with status 400 and creates no user and no refresh token,
\* also when two such registrations run concurrently; and no two users ever share an
\* email or a username
C22_DuplicateRegistrationConflicts ==
  /\ \A g \in Registrars :
       MetExistingUser(g) =>
         /\ proc[g].status = 400
         /\ proc[g].user = NoUser
         /\ proc[g].token = Null
  /\ \A u, v \in Users :
       (u # v /\ IsRow(users[u]) /\ IsRow(users[v])) =>
         /\ users[u].email # users[v].email
         /\ users[u].username # users[v].username

\* ------------------------------------------------------------------ assignment claims

\* task t1 of project p1 (owner u1, member u2; created by u2); u3 has no access to p1
\* authMiddleware answers 401 to a deactivated account: callers are active users
NextAssign ==
  \/ \E u \in Users, d \in CreateTaskDatas :
       /\ isActiveUser(World, u)
       /\ NextId(<<"t2">>, tasks) # Absent
       /\ Answered(createNewTask(u, "p1", d, NextId(<<"t2">>, tasks)))
  \/ \E u \in Users, d \in UpdateTaskDatas :
       /\ isActiveUser(World, u)
       /\ CanUpdate("t1")
       /\ Answered(updateTaskById(u, "t1", d))
  \/ \E u \in Users, a \in Users :
       /\ isActiveUser(World, u)
       /\ CanUpdate("t1")
       /\ Answered(assignTask(u, "t1", a))
  \/ \E u \in Users :
       /\ isActiveUser(World, u)
       /\ CanUpdate("t1")
       /\ Answered(unassignTask(u, "t1"))
  \/ \E u \in Users : isActiveUser(World, u) /\ Answered(removeMember(u, "p1", "u2"))
  \/ \E u \in Users : isActiveUser(World, u) /\ GetTask(u, "t1", TRUE)
  \/ DeactivateAccount("u2")
  \/ Respond

SpecAssign == InitComments /\ [][NextAssign]_vars

\* u is neither owner nor member of the project of task t, nor creator or assignee of t
TaskOutsider(ps, ms, ts, u, t) ==
  /\ IsRow(ts[t])
  /\ ps[ts[t].projectId].ownerId # u
  /\ ms[ts[t].projectId][u] = NoRole
  /\ ts[t].createdById # u
  /\ ts[t].assigneeId # u

\* C23: a user who is neither owner nor member of a task's project nor creator or
\* assignee of the task cannot change the task or obtain access to it: no request of
\* that user (PUT /api/tasks/:id/assign and /unassign included) modifies a field of
\* the task, and after it the user still fails requireTaskAccess for the task
C23_OutsiderCannotChangeTask ==
  [][\A t \in Tasks :
       (/\ ev.mw = "none" /\ ev'.mw \in {"route", "task"}
        /\ TaskOutsider(projects, members, tasks, res'.caller, t))
       => /\ tasks'[t] = tasks[t]
          /\ TaskOutsider(projects', members', tasks', res'.caller, t)
          /\ requireTaskAccess(World, NewReq(res'.caller), t, TRUE).nextCalls = 0]_vars

\* C25: each task's assignee, when set, is an active user who is owner or member of
\* the task's project, after any sequence of createTask, updateTask, assignTask,
\* unassignTask, removeProjectMember and deactivateUserAccount
C25_AssigneeIsActiveMember ==
  \A t \in Tasks :
    (IsRow(tasks[t]) /\ tasks[t].assigneeId # NoUser) =>
      /\ isActiveUser(World, tasks[t].assigneeId)
      /\ \/ IsOwner(tasks[t].assigneeId, tasks[t].projectId)
         \/ IsMember(tasks[t].assigneeId, tasks[t].projectId)

\* ------------------------------------------------------------------ comment read claims

\* orderBy: { createdAt: 'desc' } (comment ids are handed out in order)
CommentsNewestFirst == <<"c2", "c1">>

\* getTaskComments(taskId, options): findMany({ where: { taskId } }) with skip and
\* take, and count
getTaskComments(w, taskId, options) ==
  LET found == SelectSeq(CommentsNewestFirst,
                         LAMBDA c : IsRow(w.comments[c]) /\ w.comments[c].taskId = taskId)
      skip == calculateSkip(options.page, options.limit)
      page == SubSeq(found, skip + 1, Min(Len(found), skip + options.limit))
  IN Result(w, 200,
            [kind |-> "comments",
             comments |-> [i \in 1..Len(page) |-> CommentResponse(w, page[i])],
             total |-> Len(found)])

\* getCommentById(commentId): the comment, or ApiError 404
getCommentById(w, commentId) ==
  IF IsRow(w.comments[commentId]) THEN Result(w, 200, CommentResponse(w, commentId))
  ELSE Result(w, 404, Null)

\* GET /api/tasks/:taskId/comments
GetComments(u, t, options) ==
  OpenReadRoute("getTaskComments", u, [id |-> t, options |-> options],
                getTaskComments(World, t, options))

\* GET /api/comments/:id
GetComment(u, c) ==
  OpenReadRoute("getCommentById", u, [id |-> c], getCommentById(World, c))

NextCommentReads ==
  \/ \E u \in Users, d \in CommentDatas :
       /\ isActiveUser(World, u)
       /\ NextId(CommentIds, comments) # Absent
       /\ Answered(createNewComment(u, "t1", d, NextId(CommentIds, comments)))
  \/ \E u \in Users, c \in Comments :
       isActiveUser(World, u) /\ Answered(deleteCommentById(u, c))
  \/ \E u \in Users, o \in Options : isActiveUser(World, u) /\ GetComments(u, "t1", o)
  \/ \E u \in Users, c \in Comments : isActiveUser(World, u) /\ GetComment(u, c)
  \/ Respond

SpecCommentReads == InitComments /\ [][NextCommentReads]_vars

\* the comments the answer under way carries
CommentsRead ==
  IF res.op = "getTaskComments" /\ res.status = 200 THEN Range(res.value.comments)
  ELSE IF res.op = "getCommentById" /\ res.status = 200 THEN {res.value}
  ELSE {}

\* C24: a user reads the comments of a task, by GET /api/tasks/:taskId/comments or
\* GET /api/comments/:id, only if that user passes the task access check for the task
C24_CommentsReadWithTaskAccess ==
  \A c \in CommentsRead :
    requireTaskAccess(World, NewReq(res.caller), c.taskId, TRUE).nextCalls > 0

\* ------------------------------------------------------------------ archive claims

Archived(p) == IsRow(projects[p]) /\ projects[p].isArchived

\* C26: archiving is permanent through the API: once isArchived is true, no request of
\* any user, the owner included, changes a field of the project, adds, re-roles or
\* removes a member, creates a task in it or deletes it
C26_ArchivedProjectFrozen ==
  [][\A p \in Projects :
       Archived(p) =>
         /\ projects'[p] = projects[p]
         /\ members'[p] = members[p]
         /\ \A t \in Tasks :
              (IsRow(tasks'[t]) /\ tasks'[t].projectId = p) => IsRow(tasks[t])]_vars

\* the owner of the archived project asked to un-archive it and was answered 403
C26_Witness ==
  /\ Archived("p1")
  /\ ev.mw = "route"
  /\ res.op = "updateProject"
  /\ IsOwner(res.caller, "p1")
  /\ res.args.data.isArchived = "false"
  /\ res.status = 403

\* ------------------------------------------------------------------ refresh tokens

\* jwt.verify(token, secret): the signature of an issued token is good; ApiError 401
\* once the token's exp is reached
verifyRefreshToken(token, now) == IF now >= token.exp THEN Throw ELSE Ok(token.userId)

\* prisma.refreshToken.findFirst({ where: { token, userId, expiresAt: { gt: now } } })
refreshTokenFindFirst(table, token, userId, now) ==
  LET found == {i \in 1..Len(RefreshTokenIds) :
                  /\ IsRow(table[RefreshTokenIds[i]])
                  /\ table[RefreshTokenIds[i]].token = token
                  /\ table[RefreshTokenIds[i]].userId = userId
                  /\ table[RefreshTokenIds[i]].expiresAt > now}
  IN IF found = {} THEN Absent
     ELSE RefreshTokenIds[CHOOSE i \in found : \A j \in found : i <= j]

\* prisma.refreshToken.create; unique: the table has a unique index on token (the
\* schema of refresh_tokens is not among the migrations at hand: both are allowed)
refreshTokenCreate(table, row, unique) ==
  IF unique /\ \E r \in TokenIds : IsRow(table[r]) /\ table[r].token = row.token
  THEN Throw
  ELSE Ok([table EXCEPT ![NextId(RefreshTokenIds, table)] = row])

\* prisma.refreshToken.deleteMany({ where: { userId, expiresAt: { lt: now } } })
refreshTokenDeleteExpired(table, userId, now) ==
  [r \in TokenIds |->
     IF IsRow(table[r]) /\ table[r].userId = userId /\ table[r].expiresAt < now
     THEN Gone ELSE table[r]]

\* bcrypt: hashPassword and comparePassword
comparePassword(password, hash) == password = hash
Passwords == {"pw1", "pw2"}

Refreshers == {"f1", "f2"}
Logins == {"l1"}

\* refreshAccessToken(refreshData) up to generateTokenPair: ApiError 401 for a token
\* that is expired, not stored, or of a deactivated account
RefreshFind(f, refreshToken) ==
  /\ proc[f].pc = "idle"
  /\ LET userId == verifyRefreshToken(refreshToken, clock)
         storedToken == IF userId = Throw THEN Absent
                        ELSE refreshTokenFindFirst(refreshTokens, refreshToken,
                                                   userId.val, clock)
     IN proc' = [proc EXCEPT ![f] =
                   IF userId = Throw \/ storedToken = Absent
                   THEN [pc |-> "done", op |-> "refresh", presented |-> refreshToken,
                         status |-> 401, token |-> Null]
                   ELSE IF ~users[userId.val].isActive
                   THEN [pc |-> "done", op |-> "refresh", presented |-> refreshToken,
                         status |-> 401, token |-> Null]
                   ELSE [pc |-> "swap", op |-> "refresh", presented |-> refreshToken,
                         storedToken |-> storedToken,
                         token |-> generateRefreshToken(userId.val, clock)]]
  /\ hist' = IF proc'[f].pc = "swap"
             THEN [hist EXCEPT !.issued = @ \cup {proc'[f].token}]
             ELSE hist
  /\ UNCHANGED <<users, projects, members, tasks, comments, refreshTokens, clock,
                 cache, redis, ev, res, sockets>>

\* ... prisma.$transaction([refreshToken.delete({ id }), refreshToken.create]); a
\* failing statement rolls both back and the catch block answers ApiError 500
RefreshSwap(f, unique) ==
  /\ proc[f].pc = "swap"
  /\ LET id == proc[f].storedToken
         deleted == IF IsRow(refreshTokens[id])
                    THEN Ok([refreshTokens EXCEPT ![id] = Gone])
                    ELSE Throw
         created == IF deleted = Throw THEN Throw
                    ELSE refreshTokenCreate(
                           deleted.val,
                           RefreshTokenRow(proc[f].token, proc[f].token.userId, clock),
                           unique)
     IN /\ deleted # Throw => NextId(RefreshTokenIds, refreshTokens) # Absent
        /\ refreshTokens' = IF created = Throw THEN refreshTokens ELSE created.val
        /\ proc' = [proc EXCEPT ![f] =
                      [pc |-> "done", op |-> "refresh", presented |-> @.presented,
                       status |-> IF created = Throw THEN 500 ELSE 200,
                       token |-> IF created = Throw THEN Null ELSE @.token]]
        /\ hist' = IF created = Throw THEN hist
                   ELSE [hist EXCEPT !.redeemed = @ \cup {proc[f].presented}]
  /\ UNCHANGED <<users, projects, members, tasks, comments, clock,
                 cache, redis, ev, res, sockets>>

\* loginUser(loginData) up to comparePassword: ApiError 401 for an unknown or
\* deactivated user or a wrong password
LoginFind(l, emailOrUsername, password) ==
  /\ proc[l].pc = "idle"
  /\ LET found == userFindFirst(users, emailOrUsername, emailOrUsername)
         user == IF found # NoUser /\ users[found].isActive THEN found ELSE NoUser
     IN proc' = [proc EXCEPT ![l] =
                   IF user = NoUser \/ ~comparePassword(password, users[user].password)
                   THEN [pc |-> "done", op |-> "login", status |-> 401, token |-> Null]
                   ELSE [pc |-> "generate", op |-> "login", user |-> user]]
  /\ UNCHANGED <<users, projects, members, tasks, comments, refreshTokens, clock,
                 cache, redis, ev, res, hist, sockets>>

\* ... generateTokenPair; prisma.refreshToken.deleteMany of the user's expired tokens
LoginGenerate(l) ==
  /\ proc[l].pc = "generate"
  /\ proc' = [proc EXCEPT ![l] =
                [pc |-> "store", op |-> "login", user |-> @.user,
                 token |-> generateRefreshToken(@.user, clock)]]
  /\ refreshTokens' = refreshTokenDeleteExpired(refreshTokens, proc[l].user, clock)
  /\ hist' = [hist EXCEPT !.issued = @ \cup {proc'[l].token}]
  /\ UNCHANGED <<users, projects, members, tasks, comments, clock,
                 cache, redis, ev, res, sockets>>

\* ... prisma.refreshToken.create; return (ApiError 500 when the create is rejected)
LoginStore(l, unique) ==
  /\ proc[l].pc = "store"
  /\ NextId(RefreshTokenIds, refreshTokens) # Absent
  /\ LET created == refreshTokenCreate(
                      refreshTokens,
                      RefreshTokenRow(proc[l].token, proc[l].user, clock), unique)
     IN /\ refreshTokens' = IF created = Throw THEN refreshTokens ELSE created.val
        /\ proc' = [proc EXCEPT ![l] =
                      [pc |-> "done", op |-> "login",
                       status |-> IF created = Throw THEN 500 ELSE 200,
                       token |-> IF created = Throw THEN Null ELSE @.token]]
  /\ UNCHANGED <<users, projects, members, tasks, comments, clock,
                 cache, redis, ev, res, hist, sockets>>

\* the refresh tokens of userId issued so far are revoked
Revoked(userId) ==
  [hist EXCEPT !.revoked = @ \cup {t \in hist.issued : t.userId = userId}]

\* changeUserPassword(userId, passwordData): ApiError 404 for a user who is not active,
\* 400 for a wrong current password; else one transaction that writes the password
\* and deletes the user's refresh tokens
changeUserPassword(w, userId, passwordData) ==
  IF ~isActiveUser(w, userId) THEN Result(w, 404, Null)
  ELSE IF ~comparePassword(passwordData.currentPassword, w.users[userId].password)
  THEN Result(w, 400, Null)
  ELSE Result([w EXCEPT !.users[userId].password = passwordData.newPassword,
                        !.refreshTokens = refreshTokenDeleteMany(@, userId)], 200, Null)

ChangePassword(u, passwordData) ==
  /\ Idle
  /\ changeUserPassword(World, u, passwordData).status = 200
  /\ SetWorld(changeUserPassword(World, u, passwordData).w)
  /\ hist' = Revoked(u)
  /\ UNCHANGED <<ev, res, proc, sockets>>

\* resetUserPassword(resetData) with the unexpired reset token of userId: ApiError 400
\* for a user who is not active; else one transaction that writes the password and
\* deletes the reset token and the user's refresh tokens
resetUserPassword(w, userId, password) ==
  IF ~w.users[userId].isActive THEN Result(w, 400, Null)
  ELSE Result([w EXCEPT !.users[userId].password = password,
                        !.refreshTokens = refreshTokenDeleteMany(@, userId)], 200, Null)

ResetPassword(u, password) ==
  /\ Idle
  /\ resetUserPassword(World, u, password).status = 200
  /\ users[u].password # password
  /\ SetWorld(resetUserPassword(World, u, password).w)
  /\ hist' = Revoked(u)
  /\ UNCHANGED <<ev, res, proc, sockets>>

\* deactivateUserAccount(u)
Deactivate(u) ==
  /\ Idle
  /\ users[u].isActive
  /\ SetWorld(deactivateUserAccount(World, u).w)
  /\ hist' = Revoked(u)
  /\ UNCHANGED <<ev, res, proc, sockets>>

\* the 7 days of a refresh token pass
WeekPasses ==
  /\ clock < JWT_REFRESH_EXPIRES_IN
  /\ clock' = clock + JWT_REFRESH_EXPIRES_IN
  /\ UNCHANGED <<users, projects, members, tasks, comments, refreshTokens,
                 cache, redis, ev, res, proc, hist, sockets>>

\* a second passes
TickSecond ==
  /\ clock % JWT_REFRESH_EXPIRES_IN < MaxClock
  /\ clock' = clock + 1
  /\ UNCHANGED <<users, projects, members, tasks, comments, refreshTokens,
                 cache, redis, ev, res, proc, hist, sockets>>

\* user u1 has logged in at second 0: one stored refresh token
FirstToken == generateRefreshToken("u1", 0)

InitTokens ==
  /\ users = [u \in Users |->
                IF u = "u1" THEN [isActive |-> TRUE, email |-> "ann@x.io",
                                  username |-> "ann", password |-> "pw1"]
                ELSE Null]
  /\ projects = [p \in Projects |-> Null]
  /\ members = [p \in Projects |-> [u \in Users |-> NoRole]]
  /\ tasks = [t \in Tasks |-> Null]
  /\ comments = [c \in Comments |-> Null]
  /\ refreshTokens = [r \in TokenIds |->
                        IF r = "r1" THEN RefreshTokenRow(FirstToken, "u1", 0) ELSE Null]
  /\ clock = 0
  /\ sockets = NoSockets
  /\ cache = EmptyCache
  /\ redis = "open"
  /\ ev = NoEval
  /\ res = NoCall
  /\ proc = [x \in Refreshers \cup Logins |-> IdleProc]
  /\ hist = [issued |-> {FirstToken}, revoked |-> {}, redeemed |-> {}]

\* refreshes of tokens that were issued, sequential and concurrent
NextRefresh ==
  \/ \E f \in Refreshers, t \in hist.issued : RefreshFind(f, t)
  \/ \E f \in Refreshers, unique \in BOOLEAN : RefreshSwap(f, unique)
  \/ \E f \in Refreshers : CallDone(f)
  \/ TickSecond
  \/ WeekPasses

SpecRefresh == InitTokens /\ [][NextRefresh]_vars

Stored(table, token) == \E r \in TokenIds : IsRow(table[r]) /\ table[r].token = token
Rows(table) == {r \in TokenIds : IsRow(table[r])}

\* C27: a stored refresh token is redeemed at most once: of the refreshAccessToken
\* calls with one token, sequential or concurrent, at most one succeeds; after it the
\* old token is no longer stored and exactly one new token is stored in its place;
\* every other call fails and stores no token
C27_RedeemedAtMostOnce ==
  [][\A f \in Refreshers :
       (proc[f].pc = "swap" /\ proc'[f].pc = "done") =>
         IF proc'[f].status = 200
         THEN /\ proc[f].presented \notin hist.redeemed
              /\ ~Stored(refreshTokens', proc[f].presented)
              /\ Cardinality(Rows(refreshTokens')) = Cardinality(Rows(refreshTokens))
         ELSE refreshTokens' = refreshTokens]_vars

PasswordDatas == [currentPassword : Passwords, newPassword : Passwords]

\* logins, refreshes and revocations of the tokens of user u1
NextTokens ==
  \/ \E f \in Refreshers, t \in hist.issued : RefreshFind(f, t)
  \/ \E f \in Refreshers, unique \in BOOLEAN : RefreshSwap(f, unique)
  \/ \E l \in Logins, e \in {"ann", "Ann@x.io", "bob"}, password \in Passwords :
       LoginFind(l, e, password)
  \/ \E l \in Logins : LoginGenerate(l)
  \/ \E l \in Logins, unique \in BOOLEAN : LoginStore(l, unique)
  \/ \E x \in Refreshers \cup Logins : CallDone(x)
  \/ \E d \in PasswordDatas : d.currentPassword # d.newPassword /\ ChangePassword("u1", d)
  \/ \E password \in Passwords : ResetPassword("u1", password)
  \/ Deactivate("u1")
  \/ TickSecond

SpecTokens == InitTokens /\ [][NextTokens]_vars

\* C28: once changeUserPassword, resetUserPassword or deactivateUserAccount for u has
\* completed, no refresh token issued to u before that moment can be redeemed:
\* refreshAccessToken with such a token fails with 401, also when a loginUser or
\* refreshAccessToken call for u that started earlier is still in flight
C28_RevokedTokensRejected ==
  [][\A f \in Refreshers :
       (/\ proc[f].pc = "idle" /\ proc'[f].pc # "idle"
        /\ proc'[f].presented \in hist.revoked)
       => proc'[f].pc = "done" /\ proc'[f].status = 401]_vars

\* ------------------------------------------------------------------ sockets

\* io.use: the handshake's access token names user u, whose profile must be found;
\* on connection the socket joins the user's own room
Connect(s, u) ==
  /\ sockets[s] = Null
  /\ getUserProfile(World, u).status = 200
  /\ sockets' = [sockets EXCEPT ![s] = [user |-> u, rooms |-> {<<"user:", u>>}]]
  /\ UNCHANGED <<users, projects, members, tasks, comments, refreshTokens, clock,
                 cache, redis, ev, res, proc, hist>>

\* socket.on('join_project', projectId): socket.join(`project:${projectId}`)
JoinProject(s, projectId) ==
  /\ sockets[s] # Null
  /\ sockets' = IF projectId = Absent THEN sockets
                ELSE [sockets EXCEPT ![s].rooms = @ \cup {<<"project:", projectId>>}]
  /\ UNCHANGED <<users, projects, members, tasks, comments, refreshTokens, clock,
                 cache, redis, ev, res, proc, hist>>

\* socket.on('leave_project', projectId): socket.leave(`project:${projectId}`)
LeaveProject(s, projectId) ==
  /\ sockets[s] # Null
  /\ sockets' = IF projectId = Absent THEN sockets
                ELSE [sockets EXCEPT ![s].rooms = @ \ {<<"project:", projectId>>}]
  /\ UNCHANGED <<users, projects, members, tasks, comments, refreshTokens, clock,
                 cache, redis, ev, res, proc, hist>>

\* socket.on('disconnect')
Disconnect(s) ==
  /\ sockets[s] # Null
  /\ sockets' = [sockets EXCEPT ![s] = Null]
  /\ UNCHANGED <<users, projects, members, tasks, comments, refreshTokens, clock,
                 cache, redis, ev, res, proc, hist>>

\* project p1 (owner u1, member u2) and project p2 (owner u3); two sockets
NextSockets ==
  \/ \E s \in Sockets, u \in Users : Connect(s, u)
  \/ \E s \in Sockets, p \in Projects \cup {Absent} : JoinProject(s, p)
  \/ \E s \in Sockets, p \in Projects \cup {Absent} : LeaveProject(s, p)
  \/ \E s \in Sockets : Disconnect(s)
  \/ RemoveMember("u1", "p1", "u2")

SpecSockets == InitTasks /\ [][NextSockets]_vars

\* C29: a socket receives the events of project P only if its authenticated user is
\* owner or member of P: a socket is in room project:P only for such users, after any
\* sequence of join_project and leave_project
C29_RoomsOnlyForMembers ==
  \A s \in Sockets, p \in Projects :
    (sockets[s] # Null /\ <<"project:", p>> \in sockets[s].rooms) =>
      IsOwner(sockets[s].user, p) \/ IsMember(sockets[s].user, p)

\* ------------------------------------------------------------------ completion claims

\* createTaskSchema: status is one of the five statuses, TODO when left out
StatusTaskDatas == [assigneeId : {Absent}, status : {Absent, "IN_PROGRESS", "DONE"}]

\* tasks of project p1 (owner u1, member u2) are created and updated
NextStatus ==
  \/ \E u \in AccessUsers, d \in StatusTaskDatas :
       /\ NextId(TaskIds, tasks) # Absent
       /\ Answered(createNewTask(u, "p1", d, NextId(TaskIds, tasks)))
  \/ \E u \in AccessUsers, t \in Tasks, d \in UpdateTaskDatas :
       /\ CanUpdate(t)
       /\ Answered(updateTaskById(u, t, d))
  \/ Respond

SpecStatus == InitTasks /\ [][NextStatus]_vars

\* C30: a task has status DONE exactly when its completedAt is not null, after any
\* sequence of createTask and updateTask calls
C30_DoneIffCompletedAt ==
  \A t \in Tasks :
    IsRow(tasks[t]) => (tasks[t].status = "DONE" <=> tasks[t].completedAt # Null)

====
